---- MODULE Spec2Model ----
(***************************************************************************)
(* A model of context-agent's event ingestion and state engine:            *)
(*   - the per-project store (src/context_agent/project_db.py),            *)
(*   - the registry row of the project (context_agent/registry.py),        *)
(*   - the operator commands start / stop (src/context_agent/cli.py) and   *)
(*     hook ingest (build/lib/context_agent/cli.py),                       *)
(*   - the recorder process (src/context_agent/recorder.py),               *)
(*   - the MCP tools and their stdio transport                             *)
(*     (src/context_agent/mcp_server.py),                                  *)
(*   - the retry loop every store and registry operation runs in.          *)
(*                                                                         *)
(* Every store or registry call is one SQLite transaction and is one       *)
(* atomic step here; a command that makes several calls is a process that  *)
(* takes one step per call, so that other processes interleave exactly     *)
(* where the code lets them.                                               *)
(*                                                                         *)
(* Not modelled: the bookkeeping timestamps of the projects, sessions,      *)
(* source_status and file_hash_history rows, display names, the deleted    *)
(* marker, and the git poll of a directory that is no git work tree.       *)
(***************************************************************************)
EXTENDS Integers, Sequences, FiniteSets, TLC

VARIABLES
    db,         \* context.db: the tables of the project store
    sidecar,    \* logs/events-*.jsonl: the appended payload lines
    registry,   \* registry.db: the project's row
    now,        \* the wall clock, in seconds (utc_now has second precision)
    nticks,     \* how often the clock advanced (bounds the model)
    cli,        \* the operator processes running `ctx start` / `ctx stop`
    mcp,        \* the MCP server processes, one per editor client
    recorders,  \* the recorder processes, by session id
    disk,       \* the working tree: path -> content hash, or Absent
    ret,        \* what the last store call returned to its caller
    adapter_configs,    \* registry.db: adapter -> configured log path
    adapter_log,        \* the bytes of the adapter log file, or Absent
    rpc,        \* an MCP server's serve() loop and its stdin and stdout
    git_repo,   \* whether the project directory is a git work tree
    retry       \* a store or registry operation inside _execute_retry

vars ==
    <<db, sidecar, registry, now, nticks, cli, mcp, recorders, disk, ret,
      adapter_configs, adapter_log, rpc, git_repo, retry>>

----------------------------------------------------------------------------
(* Bounds of the model. *)

MaxSessions == 2
MaxEvents == 3
MaxAppended == 2
MaxTicks == 1
NumCli == 1
NumMcp == 2
MaxLogBytes == 4
MaxInputLines == 4
MaxJsonLines == 1

----------------------------------------------------------------------------
(* Program constants. *)

DEFAULT_CAP_BYTES == 524288000
DEDUPE_WINDOW_SECONDS == 30
SUMMARY_MAX_CHARS == 500
COMPACT_AGE_SECONDS == 86400
COMPACT_LIMIT == 3000
DELETED_FILE_HASH == "__deleted__"
EVENT_TYPES ==
    {"user_intent", "agent_plan", "code_change", "revert", "decision_made",
     "tool_use", "test_result", "error_seen", "task_status", "handoff"}
HIGH_VALUE_EVENT_TYPES ==
    {"decision_made", "handoff", "error_seen", "tool_use", "revert"}

\* int(cap * COMPACTION_THRESHOLD_RATIO), the ratio being 0.85
CompactionThreshold(cap) ==
    (cap \div 100) * 85 + ((cap % 100) * 85) \div 100

\* SQL NULL in an integer column (ids start at 1), and Python's None.
NoId == 0
\* SQL NULL in a hash column.
NoHash == "NULL"
\* No value in a text argument.
NoText == "None"
\* The path is not a regular file of the working tree.
Absent == "absent"

----------------------------------------------------------------------------
(* The finite world the model draws inputs from. *)

\* The tracked paths, in the order Python's sorted() gives.
PathOrder == <<"a.py">>
Paths == {PathOrder[i] : i \in DOMAIN PathOrder}
\* The content hashes files can take (hex SHA-256 digests).
Hashes == {"h1", "h2"}
\* The clock advances by these steps: the two that straddle the dedupe
\* window, and one that takes an event past the compaction age.
TickSteps == {DEDUPE_WINDOW_SECONDS, DEDUPE_WINDOW_SECONDS + 1}
DayStep == COMPACT_AGE_SECONDS + 1
\* Measured sizes of the memory directory: one below the compaction threshold
\* and one over the cap. An insert can take the directory from the one to the
\* other: the text fields of an event other than its summary are unbounded.
UsageSamples ==
    {0, DEFAULT_CAP_BYTES + 1}

\* The bytes an adapter log is made of: a letter and the line break. No
\* line of the model carries a speaker prefix.
LogBytes == {"F", "\n"}
\* The JSON object texts an editor writes to its log as whole lines; each
\* is one unit of the log.
JsonTexts ==
    { "{tool}", "{tool,raw_prompt}", "{decision}", "{status}",
      "{plan,decision}", "{plan}", "{tool,decision}" }
\* The adapter `ctx adapter configure` is run for, and its log path.
ConfiguredAdapter == "cursor"
AdapterLogPath == "cursor.log"

CliProcs == 1..NumCli
McpProcs == 1..NumMcp

----------------------------------------------------------------------------
(* Sequences and text. A summary is a sequence of characters (one-character *)
(* strings); the store's own summaries are sequences of longer tokens.      *)

Max(S) == CHOOSE x \in S : \A y \in S : y <= x
Min(S) == CHOOSE x \in S : \A y \in S : x <= y

IsSpace(c) == c \in {" ", "\t", "\n"}

\* str.lower(), on the characters and tokens the model uses
LowerChar(c) ==
    CASE c = "F" -> "f"
      [] c = "X" -> "x"
      [] c = "File changed: " -> "file changed: "
      [] c = "Last changes were reverted for " -> "last changes were reverted for "
      [] c = "Recorder stopped cleanly." -> "recorder stopped cleanly."
      [] c = "Claude hook event received: " -> "claude hook event received: "
      [] c = "Git change detected in " -> "git change detected in "
      [] c = "Git working tree reverted to clean state." ->
            "git working tree reverted to clean state."
      [] c = "UserPromptSubmit" -> "userpromptsubmit"
      [] c = "PreToolUse" -> "pretooluse"
      [] c = "PostToolUse" -> "posttooluse"
      [] c = "Stop" -> "stop"
      [] c = "Notification" -> "notification"
      [] c = "P" -> "p"
      [] c = "S" -> "s"
      [] OTHER -> c

Lower(s) == [i \in DOMAIN s |-> LowerChar(s[i])]

RECURSIVE LStrip(_)
LStrip(s) == IF s # <<>> /\ IsSpace(Head(s)) THEN LStrip(Tail(s)) ELSE s

RECURSIVE RStrip(_)
RStrip(s) ==
    IF s # <<>> /\ IsSpace(s[Len(s)]) THEN RStrip(SubSeq(s, 1, Len(s) - 1)) ELSE s

\* A strip() that strips nothing.
KeepSpaces(s) == s

\* str.strip()
Strip(s) == LStrip(RStrip(s))

\* re.sub(r"\s+", " ", s)
CollapseWs(s) ==
    LET starts == [i \in DOMAIN s |->
                     [char |-> s[i], first |-> i = 1 \/ ~IsSpace(s[i - 1])]]
        kept == SelectSeq(starts, LAMBDA c : ~IsSpace(c.char) \/ c.first)
    IN  [i \in DOMAIN kept |-> IF IsSpace(kept[i].char) THEN " " ELSE kept[i].char]

Truncate(s, n) == IF Len(s) <= n THEN s ELSE SubSeq(s, 1, n)

\* A normalization that strips and truncates without collapsing.
normalize_summary_uncollapsed(summary, max_chars) ==
    Truncate(Strip(summary), max_chars)

\* normalize_summary: re.sub(r"\s+", " ", summary.strip())[:max_chars]
normalize_summary(summary, max_chars) ==
    Truncate(CollapseWs(Strip(summary)), max_chars)

\* sorted(set(...)) of repo-relative paths
SortedFiles(S) == SelectSeq(PathOrder, LAMBDA p : p \in S)

\* ",".join(files)
RECURSIVE JoinComma(_)
JoinComma(fs) ==
    IF fs = <<>> THEN <<>>
    ELSE IF Len(fs) = 1 THEN <<fs[1]>>
    ELSE <<fs[1], ",">> \o JoinComma(Tail(fs))

\* f"{x or ''}" for a hash and for an id
HashOrEmpty(h) == IF h = NoHash THEN "" ELSE h
IdOrEmpty(i) == IF i = NoId THEN "" ELSE ToString(i)

----------------------------------------------------------------------------
(* The project store: context.db. Each operator below is the body of one    *)
(* transaction, as a function from the database to the database.            *)

EmptyFn == [x \in {} |-> NoId]

\* The database _init_db leaves behind: the schema and the project row.
EmptyDb ==
    [ project |-> [recording_state |-> "stopped",
                   storage_cap_bytes |-> DEFAULT_CAP_BYTES,
                   storage_used_bytes |-> 0],
      sessions |-> <<>>,
      events |-> EmptyFn,
      last_event_id |-> NoId,
      tool_usage |-> <<>>,
      decisions |-> <<>>,
      rollups |-> <<>>,
      file_state |-> EmptyFn,
      file_hash_history |-> {},
      source_status |-> EmptyFn,
      adapter_offsets |-> EmptyFn ]

SessionIds(d) == DOMAIN d.sessions
EventIds(d) == DOMAIN d.events

set_project_metadata(d, recording_state) ==
    [d EXCEPT !.project.recording_state = recording_state]

\* INSERT INTO sessions ... 'running'; UPDATE projects SET recording_state
create_session(d, agent, external_session_ref, t) ==
    [d EXCEPT !.sessions = Append(@, [state |-> "running", agent |-> agent,
                                      external_session_ref |-> external_session_ref,
                                      started_at |-> t]),
              !.project.recording_state = "recording"]

\* cursor.lastrowid of create_session
created_session_id(d) == Len(d.sessions) + 1

get_session_state(d, session_id) ==
    IF session_id \in SessionIds(d) THEN d.sessions[session_id].state ELSE NoText

\* SELECT * FROM sessions WHERE state = 'running' ORDER BY started_at DESC
\* LIMIT 1: the rows it may return. started_at has second precision and SQL
\* leaves the order of ties open, so any running session started last may be
\* the one returned; NoId stands for no row.
RunningSessions(d) == {s \in SessionIds(d) : d.sessions[s].state = "running"}
get_active_session(d) ==
    IF RunningSessions(d) = {} THEN {NoId}
    ELSE {s \in RunningSessions(d) :
            \A r \in RunningSessions(d) :
                d.sessions[r].started_at <= d.sessions[s].started_at}

\* UPDATE sessions SET state = ? WHERE id = ?, with no condition on the
\* state the row is in; the project row follows for stopped and stopping.
set_session_state(d, session_id, state) ==
    LET d1 == IF session_id \in SessionIds(d)
              THEN [d EXCEPT !.sessions[session_id].state = state]
              ELSE d
    IN  IF state = "stopped"
        THEN [d1 EXCEPT !.project.recording_state = "stopped"]
        ELSE IF state = "stopping"
        THEN [d1 EXCEPT !.project.recording_state = "stopping"]
        ELSE d1

\* INSERT INTO source_status ... ON CONFLICT(session_id, source) DO UPDATE;
\* the row's updated_at is not modelled.
update_source_status(d, session_id, source, status, detail, t) ==
    [d EXCEPT !.source_status =
        (<<session_id, source>> :> [status |-> status, detail |-> detail]) @@ @]

\* SELECT byte_offset FROM adapter_offsets WHERE session_id = ? AND
\* adapter = ? AND log_path = ?  (0: no row)
get_adapter_offset(d, session_id, adapter, log_path) ==
    IF <<session_id, adapter, log_path>> \in DOMAIN d.adapter_offsets
    THEN d.adapter_offsets[<<session_id, adapter, log_path>>]
    ELSE 0

\* INSERT INTO adapter_offsets ... ON CONFLICT(session_id, adapter, log_path)
\* DO UPDATE SET byte_offset
set_adapter_offset(d, session_id, adapter, log_path, offset) ==
    [d EXCEPT !.adapter_offsets =
        (<<session_id, adapter, log_path>> :> offset) @@ @]

----------------------------------------------------------------------------
(* Inserting events. *)

\* str.strip() of an event type, on the values the model uses
StripType(t) == IF t = " handoff " THEN "handoff" ELSE t

\* raw_type = (event_type or "task_status").strip(), then the closed set
safe_event_type(event_type) ==
    LET raw_type == IF event_type = NoText THEN "task_status"
                    ELSE StripType(event_type)
    IN  IF raw_type \in EVENT_TYPES THEN raw_type ELSE "task_status"

\* One touched path as the store keeps it: stripped, resolved against the
\* project root and made relative to it; "" stands for an item dropped.
sanitize_path(raw) ==
    CASE raw = "./b.py" -> "b.py"
      [] raw = " a.py" -> "a.py"
      [] OTHER -> raw

sanitize_files(files_touched) ==
    SortedFiles({sanitize_path(f) : f \in files_touched} \ {""})

\* An ideal SHA-256: equal digests only for equal inputs.
sha256(basis) == <<"sha256", basis>>

dedupe_basis(safe_type, safe_summary, files, before_hash, after_hash, reverted_event_id, is_effective) ==
    <<safe_type, "|">> \o Lower(safe_summary) \o <<"|">> \o JoinComma(files)
    \o <<"|", HashOrEmpty(before_hash), "|", HashOrEmpty(after_hash), "|",
         IdOrEmpty(reverted_event_id), "|", ToString(is_effective)>>

\* The arguments of insert_event that most callers leave at their defaults.
EventArgs(session_id, event_type, summary, files_touched, source, t) ==
    [ session_id |-> session_id, event_type |-> event_type, summary |-> summary,
      files_touched |-> files_touched, source |-> source, now |-> t,
      tool_name |-> NoText, tool_purpose |-> NoText, tool_result |-> NoText,
      decision_summary |-> <<>>, before_hash |-> NoHash, after_hash |-> NoHash,
      reverted_event_id |-> NoId, is_effective |-> 1 ]

\* SELECT id, created_at FROM events WHERE session_id = ? AND dedupe_hash = ?
\* ORDER BY created_at DESC LIMIT 1  (NoId: no row)
dedupe_existing(d, session_id, dedupe_hash) ==
    LET same == {e \in EventIds(d) : /\ d.events[e].session_id = session_id
                                     /\ d.events[e].dedupe_hash = dedupe_hash}
    IN  IF same = {} THEN NoId
        ELSE CHOOSE e \in same :
                \A o \in same : d.events[o].created_at <= d.events[e].created_at

\* A rowid without AUTOINCREMENT: one more than the largest id in the table.
next_event_id_rowid(d) ==
    IF EventIds(d) = {} THEN 1 ELSE Max(EventIds(d)) + 1

\* events.id INTEGER PRIMARY KEY AUTOINCREMENT: one more than the largest id
\* the table ever held (sqlite_sequence), deleted rows included.
next_event_id(d) == d.last_event_id + 1

\* A window that closes one second early.
in_dedupe_window_exclusive(t, created_at) == t - created_at < DEDUPE_WINDOW_SECONDS

\* (now_dt - created).total_seconds() <= DEDUPE_WINDOW_SECONDS
in_dedupe_window(t, created_at) == t - created_at <= DEDUPE_WINDOW_SECONDS

\* The line _append_event_log writes for an inserted event.
log_payload(event_id, a, safe_type, safe_summary, files) ==
    [ event_id |-> event_id, session_id |-> a.session_id, event_type |-> safe_type,
      summary |-> safe_summary, files_touched |-> files,
      before_hash |-> a.before_hash, after_hash |-> a.after_hash,
      reverted_event_id |-> a.reverted_event_id, source |-> a.source,
      created_at |-> a.now ]

\* _insert_event_with_conn on an open transaction. `used` is the size of the
\* memory directory measured after the log line is written. The result holds
\* the database and the log as the call leaves them, the id it returns and
\* the error it raises, if any.
insert_event_with_conn(d, log, a, used) ==
    LET Stored(safe_type, safe_summary, files, dedupe_hash, existing, event_id) ==
          IF safe_summary = <<>>
          THEN [db |-> d, log |-> log, id |-> NoId, err |-> "ValueError"]
          ELSE IF existing # NoId /\ in_dedupe_window(a.now, d.events[existing].created_at)
          THEN [db |-> [d EXCEPT !.events[existing].updated_at = a.now],
                log |-> log, id |-> existing, err |-> "none"]
          ELSE [db |-> [d EXCEPT
                  !.events = (event_id :>
                      [ session_id |-> a.session_id, event_type |-> safe_type,
                        summary |-> safe_summary, files |-> files,
                        before_hash |-> a.before_hash, after_hash |-> a.after_hash,
                        reverted_event_id |-> a.reverted_event_id,
                        reverted_by_event_id |-> NoId,
                        is_effective |-> a.is_effective, source |-> a.source,
                        created_at |-> a.now, updated_at |-> a.now,
                        dedupe_hash |-> dedupe_hash ]) @@ @,
                  !.last_event_id = event_id,
                  !.tool_usage = @ \o
                      IF a.tool_name # NoText
                      THEN <<[event_id |-> event_id, session_id |-> a.session_id,
                              tool_name |-> a.tool_name, purpose |-> a.tool_purpose,
                              result |-> a.tool_result]>>
                      ELSE <<>>,
                  !.decisions = @ \o
                      IF safe_type = "decision_made" \/ a.decision_summary # <<>>
                      THEN <<[event_id |-> event_id, session_id |-> a.session_id,
                              summary |-> IF a.decision_summary # <<>>
                                          THEN a.decision_summary ELSE safe_summary]>>
                      ELSE <<>>,
                  !.project.storage_used_bytes = used],
                log |-> Append(log, log_payload(event_id, a, safe_type, safe_summary, files)),
                id |-> event_id, err |-> "none"]
        Hashed(safe_type, safe_summary, files, dedupe_hash) ==
          Stored(safe_type, safe_summary, files, dedupe_hash,
                 dedupe_existing(d, a.session_id, dedupe_hash), next_event_id(d))
        Normalized(safe_type, safe_summary, files) ==
          Hashed(safe_type, safe_summary, files,
                 sha256(dedupe_basis(safe_type, safe_summary, files, a.before_hash,
                                     a.after_hash, a.reverted_event_id, a.is_effective)))
    IN  Normalized(safe_event_type(a.event_type),
                   normalize_summary(a.summary, SUMMARY_MAX_CHARS),
                   sanitize_files(a.files_touched))

----------------------------------------------------------------------------
(* Quota and compaction. *)

\* compact() without its filter on the event type.
compact_rows_any_type(d, wallclock) ==
    {e \in EventIds(d) : d.events[e].created_at < wallclock - COMPACT_AGE_SECONDS}

\* The rows compact() selects: low-value events created more than a day
\* before `wallclock`, oldest first, at most COMPACT_LIMIT of them.
compact_rows(d, wallclock) ==
    LET old == {e \in EventIds(d) :
                  /\ d.events[e].event_type \notin HIGH_VALUE_EVENT_TYPES
                  /\ d.events[e].created_at < wallclock - COMPACT_AGE_SECONDS}
    IN  IF Cardinality(old) <= COMPACT_LIMIT THEN old
        ELSE CHOOSE S \in SUBSET old :
                /\ Cardinality(S) = COMPACT_LIMIT
                /\ \A e \in S, o \in old \ S :
                      d.events[e].created_at <= d.events[o].created_at

compact(d, wallclock) ==
    LET rows == compact_rows(d, wallclock)
        created == {d.events[e].created_at : e \in rows}
        counts == [ty \in {d.events[e].event_type : e \in rows} |->
                      Cardinality({e \in rows : d.events[e].event_type = ty})]
    IN  IF rows = {} THEN d
        ELSE [d EXCEPT
                !.rollups = Append(@, [period_start |-> Min(created),
                                       period_end |-> Max(created),
                                       count |-> Cardinality(rows),
                                       counts |-> counts]),
                !.events = [e \in EventIds(d) \ rows |-> d.events[e]]]

\* _project_cap
project_cap(d) ==
    IF d.project.storage_cap_bytes = 0 THEN DEFAULT_CAP_BYTES
    ELSE d.project.storage_cap_bytes

\* _enforce_quota. `used` is the size measured on entry, `vacuumed` the size
\* measured after compaction and VACUUM. compact() is committed on its own;
\* the update of storage_used_bytes belongs to the caller's transaction.
\* committed: the database should the caller's transaction roll back;
\* db: the database inside the caller's transaction.
enforce_quota(d, used, vacuumed, wallclock) ==
    LET cap == project_cap(d)
        compacts == used >= CompactionThreshold(cap)
        d1 == IF compacts THEN compact(d, wallclock) ELSE d
        used1 == IF compacts THEN vacuumed ELSE used
    IN  [ committed |-> d1,
          db |-> [d1 EXCEPT !.project.storage_used_bytes = used1],
          err |-> IF used1 >= cap THEN "StorageCapError" ELSE "none" ]

\* The sizes one insert measures: on entry, after VACUUM, after the log line.
Measurements ==
    {m \in [used : UsageSamples, vacuumed : UsageSamples, logged : UsageSamples] :
        /\ m.vacuumed <= m.used
        /\ m.logged >= m.vacuumed
        /\ (m.used < CompactionThreshold(DEFAULT_CAP_BYTES) => m.vacuumed = m.used)}

\* ProjectStore.insert_event: quota, then the insert, in one transaction that
\* rolls back when either raises.
insert_event(d, log, a, m, wallclock) ==
    LET Inserted(q, r) ==
          IF r.err # "none"
          THEN [db |-> q.committed, log |-> log, id |-> NoId, err |-> r.err]
          ELSE r
        Admitted(q) ==
          IF q.err # "none"
          THEN [db |-> q.committed, log |-> log, id |-> NoId, err |-> q.err]
          ELSE Inserted(q, insert_event_with_conn(q.db, log, a, m.logged))
    IN  Admitted(enforce_quota(d, m.used, m.vacuumed, wallclock))

----------------------------------------------------------------------------
(* Per-file hash state. *)

\* _upsert_hash_history: file_hash_history is the set of its (path, hash)
\* keys; the first_seen_at and last_seen_at of a row are not modelled.
upsert_hash_history(d, path, file_hash, t) ==
    [d EXCEPT !.file_hash_history = @ \cup {<<path, file_hash>>}]

\* _is_seen_hash
is_seen_hash(d, path, file_hash) == <<path, file_hash>> \in d.file_hash_history

\* INSERT OR REPLACE in place of ON CONFLICT DO NOTHING: a seeding that
\* overwrites the row a path already has.
seed_file_state_replace(d, path, file_hash, t) ==
    [d EXCEPT !.file_state =
                (path :> [current_hash |-> file_hash, baseline_hash |-> file_hash,
                          last_event_id |-> NoId, is_clean |-> 1]) @@ @,
              !.file_hash_history = @ \cup {<<path, file_hash>>}]

\* One iteration of initialize_file_state's loop: INSERT INTO file_state ...
\* ON CONFLICT(path) DO NOTHING, then the hash history upsert.
seed_file_state(d, path, file_hash, t) ==
    LET d1 == IF path \in DOMAIN d.file_state THEN d
              ELSE [d EXCEPT !.file_state =
                      (path :> [current_hash |-> file_hash,
                                baseline_hash |-> file_hash,
                                last_event_id |-> NoId,
                                is_clean |-> 1]) @@ @]
    IN  upsert_hash_history(d1, path, file_hash, t)

\* initialize_file_state(snapshot_hashes): snapshot is a function from the
\* paths scanned to their hashes.
RECURSIVE initialize_each(_, _, _, _)
initialize_each(d, snapshot, todo, t) ==
    IF todo = {} THEN d
    ELSE LET path == CHOOSE q \in todo : TRUE
         IN  initialize_each(seed_file_state(d, path, snapshot[path], t),
                             snapshot, todo \ {path}, t)

initialize_file_state(d, snapshot, t) ==
    initialize_each(d, snapshot, DOMAIN snapshot, t)

\* The summary and type record_file_transition gives the event.
transition_summary(file_path, is_revert, is_clean) ==
    IF is_revert
    THEN IF is_clean = 1
         THEN <<"Last changes were reverted for ", file_path, "; file returned to baseline.">>
         ELSE <<"Last changes were reverted for ", file_path, "; file returned to a previous state.">>
    ELSE <<"File changed: ", file_path, ".">>

transition_event_type(is_revert) == IF is_revert THEN "revert" ELSE "code_change"

\* An UPDATE that also blanks the hash the superseded event led to.
supersede_previous_rewrites(d, previous_event_id, is_revert, event_id) ==
    IF previous_event_id # NoId /\ previous_event_id \in EventIds(d)
    THEN [d EXCEPT !.events[previous_event_id] =
            [@ EXCEPT !.is_effective = 0, !.after_hash = NoHash,
                      !.reverted_by_event_id = IF is_revert THEN event_id ELSE @]]
    ELSE d

\* UPDATE events SET is_effective = 0, reverted_by_event_id = CASE ... WHERE
\* id = previous_event_id: no row is touched when the event is gone.
supersede_previous(d, previous_event_id, is_revert, event_id) ==
    IF previous_event_id # NoId /\ previous_event_id \in EventIds(d)
    THEN [d EXCEPT !.events[previous_event_id] =
            [@ EXCEPT !.is_effective = 0,
                      !.reverted_by_event_id = IF is_revert THEN event_id ELSE @]]
    ELSE d

\* An upsert whose DO UPDATE leaves is_clean out of its SET list.
upsert_file_state_stale_clean(d, file_path, after_hash, baseline_hash, event_id, is_clean) ==
    [d EXCEPT !.file_state =
        IF file_path \in DOMAIN @
        THEN [@ EXCEPT ![file_path] =
                [@ EXCEPT !.current_hash = after_hash,
                          !.last_event_id = event_id]]
        ELSE (file_path :> [current_hash |-> after_hash,
                            baseline_hash |-> baseline_hash,
                            last_event_id |-> event_id,
                            is_clean |-> is_clean]) @@ @]

\* INSERT INTO file_state ... ON CONFLICT(path) DO UPDATE: the baseline is
\* written only when the row is new.
upsert_file_state(d, file_path, after_hash, baseline_hash, event_id, is_clean) ==
    [d EXCEPT !.file_state =
        IF file_path \in DOMAIN @
        THEN [@ EXCEPT ![file_path] =
                [@ EXCEPT !.current_hash = after_hash,
                          !.last_event_id = event_id,
                          !.is_clean = is_clean]]
        ELSE (file_path :> [current_hash |-> after_hash,
                            baseline_hash |-> baseline_hash,
                            last_event_id |-> event_id,
                            is_clean |-> is_clean]) @@ @]

\* SELECT current_hash, baseline_hash, last_event_id FROM file_state WHERE
\* path = ?; a path without a row reads as deleted, with no previous event.
file_state_row(d, path) ==
    IF path \in DOMAIN d.file_state
    THEN [ current_hash |-> d.file_state[path].current_hash,
           baseline_hash |-> d.file_state[path].baseline_hash,
           last_event_id |-> d.file_state[path].last_event_id ]
    ELSE [ current_hash |-> DELETED_FILE_HASH, baseline_hash |-> DELETED_FILE_HASH,
           last_event_id |-> NoId ]

\* ProjectStore.record_file_transition, one transaction. id = NoId with no
\* error is the call's None: nothing to record.
record_file_transition(d, log, session_id, source, path, after_hash, t, m, wallclock) ==
    LET Recorded(q, r, state, is_revert, is_clean) ==
          IF r.err # "none"
          THEN [db |-> q.committed, log |-> log, id |-> NoId, err |-> r.err]
          ELSE [db |-> upsert_hash_history(
                         upsert_file_state(
                           supersede_previous(r.db, state.last_event_id, is_revert, r.id),
                           path, after_hash, state.baseline_hash, r.id, is_clean),
                         path, after_hash, t),
                log |-> r.log, id |-> r.id, err |-> "none"]
        Classified(q, state, is_revert, is_clean) ==
          Recorded(q,
                   insert_event_with_conn(q.db, log,
                       [EventArgs(session_id, transition_event_type(is_revert),
                                  transition_summary(path, is_revert, is_clean),
                                  {path}, source, t)
                          EXCEPT !.before_hash = state.current_hash,
                                 !.after_hash = after_hash,
                                 !.reverted_event_id =
                                     IF is_revert THEN state.last_event_id ELSE NoId],
                       m.logged),
                   state, is_revert, is_clean)
        Read(q, state) ==
          IF state.current_hash = after_hash
          THEN [db |-> q.db, log |-> log, id |-> NoId, err |-> "none"]
          ELSE Classified(q, state, is_seen_hash(q.db, path, after_hash),
                          IF after_hash = state.baseline_hash THEN 1 ELSE 0)
        Admitted(q) ==
          IF q.err # "none"
          THEN [db |-> q.committed, log |-> log, id |-> NoId, err |-> q.err]
          ELSE Read(q, file_state_row(q.db, path))
    IN  Admitted(enforce_quota(d, m.used, m.vacuumed, wallclock))

----------------------------------------------------------------------------
(* The registry row of the project. *)

NoRegistryRow ==
    [ registered |-> FALSE, recording_state |-> "stopped",
      active_session_id |-> NoId, recorder_pid |-> NoId ]

\* Registry.upsert_project: a missing row is inserted as 'stopped'; an
\* existing row keeps its recording state, session and pid.
upsert_project(r) == [r EXCEPT !.registered = TRUE]

\* An update that leaves the stored pid alone when it is given none.
set_recording_state_keeps_pid(r, state, session_id, recorder_pid) ==
    IF r.registered
    THEN [r EXCEPT !.recording_state = state,
                   !.active_session_id = session_id,
                   !.recorder_pid = IF recorder_pid = NoId THEN @ ELSE recorder_pid]
    ELSE r

\* Registry.set_recording_state: an UPDATE, which changes nothing when the
\* project has no row.
set_recording_state(r, state, session_id, recorder_pid) ==
    IF r.registered
    THEN [r EXCEPT !.recording_state = state,
                   !.active_session_id = session_id,
                   !.recorder_pid = recorder_pid]
    ELSE r

----------------------------------------------------------------------------
(* Processes. A recorder's pid is the id of the session it was spawned for. *)

\* A JSON object as json.loads returns it, on the keys the model's inputs
\* carry; <<>>, {} and NoText stand for a key that is absent. raw_prompt is a
\* key no reader of the payload asks for.
NoPayload ==
    [ summary |-> <<>>, prompt |-> <<>>, files_touched |-> {},
      tool_name |-> NoText, purpose |-> NoText, result |-> NoText,
      event_type |-> NoText, decision |-> FALSE, decision_summary |-> <<>>,
      raw_prompt |-> <<>> ]
\* A prompt under a key the hook reads and the adapter does not, and a tool
\* report.
PromptPayload == [NoPayload EXCEPT !.prompt = <<" ", "P">>]
ToolPayload ==
    [NoPayload EXCEPT !.summary = <<"F">>, !.files_touched = {"a.py"},
                      !.tool_name = "pytest", !.result = "ok"]
\* The hook `ctx hook ingest` runs for: none.
NoHook == [event |-> NoText, payload |-> NoPayload]
IdleCli == [pc |-> "idle", session_id |-> NoId, pid |-> NoId, hook |-> NoHook]
\* The arguments of a tools/call request, each absent.
NoCall ==
    [ event_type |-> NoText, summary |-> <<>>, files_touched |-> {},
      decision |-> FALSE, tool_name |-> NoText, client |-> NoText,
      external_session_ref |-> NoText ]
IdleMcp == [pc |-> "idle", session_id |-> NoId, args |-> NoCall]
NoRet == [id |-> NoId, err |-> "none"]

\* retries = 8 and delay = 0.05 (seconds; the model counts milliseconds)
retries == 8
delay == 50
\* No operation is under way.
NoOperation ==
    [ pc |-> "idle", operation |-> NoText, attempt |-> 0, runs |-> 0,
      delay |-> delay, slept |-> 0, error |-> "none" ]

\* self.last_git_snapshot = None
NoGitSnapshot == [taken |-> FALSE, status |-> {}]

\* Recorder.__init__
NewRecorder ==
    [ pc |-> "startup", stop_requested |-> FALSE,
      last_git_snapshot |-> NoGitSnapshot,
      git_current |-> {},                \* the status of the git poll under way
      scanned |-> FALSE,                 \* last_file_snapshot is not None
      last_file_snapshot |-> [p \in Paths |-> Absent],
      current |-> [p \in Paths |-> Absent],   \* the scan of the poll under way
      changed |-> {},                    \* its paths still to be recorded
      lines |-> <<>>,                    \* the parsed lines still to be inserted
      new_offset |-> 0 ]                 \* handle.tell() after the read

\* A recorder process that has ended: its memory is gone.
ExitedRecorder == [NewRecorder EXCEPT !.pc = "exited"]

\* The local variable `message` of serve(): unbound until _read_message has
\* returned once, and kept from one pass of the loop to the next.
UnboundMessage == [bound |-> FALSE, request |-> NoText, id |-> NoId]

\* MCPServer.__init__, with the pipes the editor opened
NewServer ==
    [ pc |-> "serving", transport_mode |-> "auto",
      stdin |-> <<>>, stdin_open |-> TRUE, sent |-> 0,
      stdout |-> <<>>, stdout_open |-> TRUE, message |-> UnboundMessage ]

\* utils.is_pid_alive
is_pid_alive(pid) ==
    /\ pid # NoId
    /\ pid \in DOMAIN recorders
    /\ recorders[pid].pc # "exited"

\* The agents `ctx start --agent` accepts.
Agents == {"auto"}
\* Clients an MCP caller may name; only cursor and claude are accepted.
Clients == {"cursor", "codex"}
McpClientsAccepted == {"cursor", "claude"}
SUPPORTED_MCP_CLIENTS == {"cursor", "claude", "codex"}

EmptyTree == [p \in Paths |-> Absent]

Init ==
    /\ db = EmptyDb
    /\ sidecar = <<>>
    /\ registry = NoRegistryRow
    /\ now = 0
    /\ nticks = 0
    /\ cli = [p \in CliProcs |-> IdleCli]
    /\ mcp = [p \in McpProcs |-> IdleMcp]
    /\ recorders = EmptyFn
    /\ disk = EmptyTree
    /\ ret = NoRet
    /\ adapter_configs = EmptyFn
    /\ adapter_log = Absent
    /\ rpc = NewServer
    /\ git_repo = FALSE
    /\ retry = NoOperation

\* Time passes: seconds, or more than a day.
Tick ==
    /\ nticks < MaxTicks
    /\ \E step \in TickSteps : now' = now + step
    /\ nticks' = nticks + 1
    /\ UNCHANGED <<retry, git_repo, rpc, adapter_configs, adapter_log, db, sidecar, registry, cli, mcp, recorders, disk, ret>>

Day ==
    /\ now < DayStep
    /\ now' = now + DayStep
    /\ UNCHANGED <<retry, git_repo, rpc, adapter_configs, adapter_log, db, sidecar, registry, nticks, cli, mcp, recorders, disk, ret>>

----------------------------------------------------------------------------
(* `ctx start`: cmd_start, one step per store or registry call. *)

\* upsert_project, get_project and the branch on the row read: already
\* recording with a live recorder, stale recording state, or not recording.
CliStartRead(p) ==
    /\ cli[p].pc = "idle"
    /\ LET row == upsert_project(registry)
           recording == row.recording_state = "recording"
       IN  /\ registry' = row
           /\ cli' = [cli EXCEPT ![p] =
                 IF recording /\ is_pid_alive(row.recorder_pid)
                 THEN IdleCli
                 ELSE IF recording /\ row.active_session_id # NoId
                 THEN [IdleCli EXCEPT !.pc = "start_repair_session",
                                      !.session_id = row.active_session_id]
                 ELSE IF recording
                 THEN [IdleCli EXCEPT !.pc = "start_repair_registry"]
                 ELSE [IdleCli EXCEPT !.pc = "start_metadata"]]
    /\ UNCHANGED <<retry, git_repo, rpc, adapter_configs, adapter_log, db, sidecar, now, nticks, mcp, recorders, disk, ret>>

\* Repair stale recording state: store.set_session_state(stale, "stopped")
CliStartRepairSession(p) ==
    /\ cli[p].pc = "start_repair_session"
    /\ db' = set_session_state(db, cli[p].session_id, "stopped")
    /\ cli' = [cli EXCEPT ![p].pc = "start_repair_registry"]
    /\ UNCHANGED <<retry, git_repo, rpc, adapter_configs, adapter_log, sidecar, registry, now, nticks, mcp, recorders, disk, ret>>

\* registry.set_recording_state(project_path, "stopped", None, None)
CliStartRepairRegistry(p) ==
    /\ cli[p].pc = "start_repair_registry"
    /\ registry' = set_recording_state(registry, "stopped", NoId, NoId)
    /\ cli' = [cli EXCEPT ![p] = [IdleCli EXCEPT !.pc = "start_metadata"]]
    /\ UNCHANGED <<retry, git_repo, rpc, adapter_configs, adapter_log, db, sidecar, now, nticks, mcp, recorders, disk, ret>>

\* store.set_project_metadata(args.name, "recording")
CliStartMetadata(p) ==
    /\ cli[p].pc = "start_metadata"
    /\ db' = set_project_metadata(db, "recording")
    /\ cli' = [cli EXCEPT ![p].pc = "start_create"]
    /\ UNCHANGED <<retry, git_repo, rpc, adapter_configs, adapter_log, sidecar, registry, now, nticks, mcp, recorders, disk, ret>>

\* store.create_session(args.agent), then spawn_recorder for the new session
CliStartCreate(p) ==
    /\ cli[p].pc = "start_create"
    /\ Len(db.sessions) < MaxSessions
    /\ \E agent \in Agents :
         LET sid == created_session_id(db)
         IN  /\ db' = create_session(db, agent, NoText, now)
             /\ recorders' = (sid :> NewRecorder) @@ recorders
             /\ cli' = [cli EXCEPT ![p] = [pc |-> "start_register",
                                           session_id |-> sid, pid |-> sid]]
    /\ UNCHANGED <<retry, git_repo, rpc, adapter_configs, adapter_log, sidecar, registry, now, nticks, mcp, disk, ret>>

\* registry.set_recording_state(project_path, "recording", session_id, pid)
CliStartRegister(p) ==
    /\ cli[p].pc = "start_register"
    /\ registry' = set_recording_state(registry, "recording",
                                       cli[p].session_id, cli[p].pid)
    /\ cli' = [cli EXCEPT ![p] = IdleCli]
    /\ UNCHANGED <<retry, git_repo, rpc, adapter_configs, adapter_log, db, sidecar, now, nticks, mcp, recorders, disk, ret>>

----------------------------------------------------------------------------
(* `ctx stop`: cmd_stop. *)

\* registry.get_project, and the early returns
CliStopRead(p) ==
    /\ cli[p].pc = "idle"
    /\ registry.registered
    /\ cli' = [cli EXCEPT ![p] =
          IF registry.recording_state # "recording" THEN IdleCli
          ELSE [pc |-> IF registry.active_session_id # NoId
                       THEN "stop_stopping" ELSE "stop_wait",
                session_id |-> registry.active_session_id,
                pid |-> registry.recorder_pid]]
    /\ UNCHANGED <<retry, git_repo, rpc, adapter_configs, adapter_log, db, sidecar, registry, now, nticks, mcp, recorders, disk, ret>>

\* store.set_session_state(session_id, "stopping")
CliStopStopping(p) ==
    /\ cli[p].pc = "stop_stopping"
    /\ db' = set_session_state(db, cli[p].session_id, "stopping")
    /\ cli' = [cli EXCEPT ![p].pc = "stop_wait"]
    /\ UNCHANGED <<retry, git_repo, rpc, adapter_configs, adapter_log, sidecar, registry, now, nticks, mcp, recorders, disk, ret>>

\* The recorder is gone (or there was none): nothing to wait for.
CliStopWaited(p) ==
    /\ cli[p].pc = "stop_wait"
    /\ ~is_pid_alive(cli[p].pid)
    /\ cli' = [cli EXCEPT ![p].pc =
                  IF cli[p].session_id # NoId THEN "stop_stopped" ELSE "stop_registry"]
    /\ UNCHANGED <<retry, git_repo, rpc, adapter_configs, adapter_log, db, sidecar, registry, now, nticks, mcp, recorders, disk, ret>>

\* wait_for_process_exit timed out: terminate_pid sends SIGTERM, whose handler
\* sets the recorder's stop flag; cmd_stop goes on after two more seconds
\* whether or not the recorder has exited.
CliStopTimeout(p) ==
    /\ cli[p].pc = "stop_wait"
    /\ is_pid_alive(cli[p].pid)
    /\ recorders' = [recorders EXCEPT ![cli[p].pid].stop_requested = TRUE]
    /\ cli' = [cli EXCEPT ![p].pc =
                  IF cli[p].session_id # NoId THEN "stop_stopped" ELSE "stop_registry"]
    /\ UNCHANGED <<retry, git_repo, rpc, adapter_configs, adapter_log, db, sidecar, registry, now, nticks, mcp, disk, ret>>

\* store.set_session_state(session_id, "stopped")
CliStopStopped(p) ==
    /\ cli[p].pc = "stop_stopped"
    /\ db' = set_session_state(db, cli[p].session_id, "stopped")
    /\ cli' = [cli EXCEPT ![p].pc = "stop_registry"]
    /\ UNCHANGED <<retry, git_repo, rpc, adapter_configs, adapter_log, sidecar, registry, now, nticks, mcp, recorders, disk, ret>>

\* registry.set_recording_state(project_path, "stopped", None, None)
CliStopRegistry(p) ==
    /\ cli[p].pc = "stop_registry"
    /\ registry' = set_recording_state(registry, "stopped", NoId, NoId)
    /\ cli' = [cli EXCEPT ![p] = IdleCli]
    /\ UNCHANGED <<retry, git_repo, rpc, adapter_configs, adapter_log, db, sidecar, now, nticks, mcp, recorders, disk, ret>>

----------------------------------------------------------------------------
(* _execute_retry, of ProjectStore and of Registry: the same loop. *)

\* The operations the model runs: three of the store, two of the registry.
RetriedOperations ==
    { "ProjectStore.insert_event", "ProjectStore.set_session_state",
      "ProjectStore.update_source_status",
      "Registry.upsert_project", "Registry.set_recording_state" }

\* How one run of the transaction ends: it commits, or sqlite3 raises an
\* OperationalError with one of these messages.
RunOutcomes ==
    { "ok", "database is locked", "database table is locked", "disk I/O error" }

\* "locked" in str(exc).lower()
mentions_locked(error) ==
    error \in {"database is locked", "database table is locked"}

\* A loop that goes on after its last attempt.
reraises_other_errors_only(error, attempt) == ~mentions_locked(error)

\* if "locked" not in str(exc).lower() or attempt == retries - 1: raise
reraises(error, attempt) ==
    ~mentions_locked(error) \/ attempt = retries - 1

\* A caller enters _execute_retry(fn).
RetryCall(operation) ==
    /\ retry.pc # "running"
    /\ retry' = [NoOperation EXCEPT !.pc = "running", !.operation = operation]
    /\ UNCHANGED <<git_repo, rpc, adapter_configs, adapter_log, db, sidecar, registry, now, nticks, cli, mcp, recorders, disk, ret>>

\* One pass of `for attempt in range(retries)`: fn() runs and returns, or
\* the exception is raised again, or the loop sleeps, doubles the delay and
\* goes on. Past the last attempt stands the `return fn()` after the loop,
\* whose exception nothing catches.
RetryAttempt(outcome) ==
    /\ retry.pc = "running"
    /\ retry' =
          IF outcome = "ok"
          THEN [retry EXCEPT !.pc = "returned", !.runs = @ + 1, !.error = "none"]
          ELSE IF retry.attempt >= retries \/ reraises(outcome, retry.attempt)
          THEN [retry EXCEPT !.pc = "raised", !.runs = @ + 1, !.error = outcome]
          ELSE [retry EXCEPT !.runs = @ + 1, !.error = outcome,
                             !.attempt = @ + 1,
                             !.slept = @ + retry.delay,
                             !.delay = 2 * @]
    /\ UNCHANGED <<git_repo, rpc, adapter_configs, adapter_log, db, sidecar, registry, now, nticks, cli, mcp, recorders, disk, ret>>

----------------------------------------------------------------------------
(* `ctx hook ingest`: cmd_hook_ingest, one step per store call. *)

\* The payloads the model reads from stdin. Of the keys the summary may come
\* from (summary, message, text, prompt, input, content) the model carries
\* the first and `prompt`.
\* What `ctx hook ingest --event E` is run with: E and the payload on stdin.
HookInputs ==
    { [event |-> "UserPromptSubmit", payload |-> PromptPayload],
      [event |-> "UserPromptSubmit",
       payload |-> [PromptPayload EXCEPT !.raw_prompt = <<"S">>]],
      [event |-> "PreToolUse", payload |-> ToolPayload],
      [event |-> "PostToolUse",
       payload |-> [ToolPayload EXCEPT !.raw_prompt = <<"S">>]],
      [event |-> "Stop", payload |-> NoPayload],
      [event |-> "Notification", payload |-> ToolPayload] }

\* A mapping that knows the prompt hook only.
hook_event_type_prompt_only(event_name) ==
    IF event_name = "UserPromptSubmit" THEN "user_intent" ELSE "task_status"

\* An extraction that falls back on raw_prompt before the stock sentence.
_extract_hook_summary_raw_fallback(payload, event_name) ==
    [ event_type |-> IF event_name = "Stop" THEN "handoff" ELSE "task_status",
      files |-> payload.files_touched,
      summary |-> IF Strip(payload.summary) # <<>> THEN Strip(payload.summary)
                  ELSE IF Strip(payload.raw_prompt) # <<>> THEN Strip(payload.raw_prompt)
                  ELSE <<"Claude hook event received: ", event_name, ".">> ]

\* mapping.get(event_name, "task_status")
hook_event_type(event_name) ==
    CASE event_name = "UserPromptSubmit" -> "user_intent"
      [] event_name \in {"PreToolUse", "PostToolUse"} -> "tool_use"
      [] event_name = "Stop" -> "handoff"
      [] OTHER -> "task_status"

\* _extract_hook_summary: the first key with a non-blank string, stripped, or
\* the stock sentence.
_extract_hook_summary(payload, event_name) ==
    [ event_type |-> hook_event_type(event_name),
      files |-> payload.files_touched,
      summary |-> IF Strip(payload.summary) # <<>> THEN Strip(payload.summary)
                  ELSE IF Strip(payload.prompt) # <<>> THEN Strip(payload.prompt)
                  ELSE <<"Claude hook event received: ", event_name, ".">> ]

\* The insert_event arguments cmd_hook_ingest builds.
hook_event_args(session_id, payload, event_name, t) ==
    LET Built(extracted, tooled) ==
          [EventArgs(session_id, extracted.event_type, extracted.summary,
                     extracted.files, "hook:claude", t)
              EXCEPT !.tool_name = IF tooled THEN payload.tool_name ELSE NoText,
                     !.tool_result = IF tooled THEN payload.result ELSE NoText]
    IN  Built(_extract_hook_summary(payload, event_name),
              event_name \in {"PreToolUse", "PostToolUse"})

\* _resolve_runtime_session_id: without a running session the hook is
\* ignored and the command exits with code 0.
CliHookResolve(p) ==
    /\ cli[p].pc = "idle"
    /\ \E input \in HookInputs, active \in get_active_session(db) :
         IF active = NoId
         THEN /\ ret' = [id |-> NoId, err |-> "ignored"]
              /\ UNCHANGED cli
         ELSE /\ cli' = [cli EXCEPT ![p] =
                    [IdleCli EXCEPT !.pc = "hook_insert", !.session_id = active,
                                    !.hook = input]]
              /\ UNCHANGED ret
    /\ UNCHANGED <<retry, git_repo, rpc, adapter_configs, adapter_log, db, sidecar, registry, now, nticks, mcp, recorders, disk>>

\* store.insert_event(...); an exception ends the command.
CliHookInsert(p) ==
    /\ cli[p].pc = "hook_insert"
    /\ db.last_event_id < MaxAppended
    /\ \E m \in Measurements :
         \E r \in {insert_event(db, sidecar,
                     hook_event_args(cli[p].session_id, cli[p].hook.payload,
                                     cli[p].hook.event, now), m, now)} :
             /\ db' = r.db
             /\ sidecar' = r.log
             /\ ret' = [id |-> r.id, err |-> r.err]
             /\ cli' = [cli EXCEPT ![p] =
                   IF r.err = "none" THEN [cli[p] EXCEPT !.pc = "hook_heartbeat"]
                   ELSE IdleCli]
    /\ UNCHANGED <<retry, git_repo, rpc, adapter_configs, adapter_log, registry, now, nticks, mcp, recorders, disk>>

\* store.update_source_status(session_id, "hook:claude", "available", ...)
CliHookHeartbeat(p) ==
    /\ cli[p].pc = "hook_heartbeat"
    /\ db' = update_source_status(db, cli[p].session_id, <<"hook", "claude">>,
                                  "available", "heartbeat", now)
    /\ cli' = [cli EXCEPT ![p] = IdleCli]
    /\ UNCHANGED <<retry, git_repo, rpc, adapter_configs, adapter_log, sidecar, registry, now, nticks, mcp, recorders, disk, ret>>

----------------------------------------------------------------------------
(* The recorder: Recorder.run, one step per store or registry call. *)

SUPPORTED_ADAPTERS == {"cursor", "claude", "codex"}

\* f"adapter:{adapter}", the source name of an adapter's events
AdapterSource(adapter) ==
    CASE adapter = "cursor" -> "adapter:cursor"
      [] adapter = "claude" -> "adapter:claude"
      [] OTHER -> "adapter:codex"

\* _update_adapter_availability: the status and detail it stores
adapter_availability(configs, log, adapter) ==
    IF adapter \notin DOMAIN configs
    THEN [status |-> "unavailable", detail |-> "not configured"]
    ELSE IF log = Absent
    THEN [status |-> "unavailable", detail |-> "missing log path"]
    ELSE [status |-> "available", detail |-> configs[adapter]]

\* The source_status rows run() seeds before the loop.
RECURSIVE seed_adapters(_, _, _, _)
seed_adapters(d, session_id, todo, t) ==
    IF todo = {} THEN d
    ELSE LET adapter == CHOOSE x \in todo : TRUE
             found == adapter_availability(adapter_configs, adapter_log, adapter)
         IN  seed_adapters(
                update_source_status(d, session_id, <<"adapter", adapter>>,
                                     found.status, found.detail, t),
                session_id, todo \ {adapter}, t)

RecorderStartup(s) ==
    /\ s \in DOMAIN recorders
    /\ recorders[s].pc = "startup"
    /\ db' = seed_adapters(
                update_source_status(
                    update_source_status(db, s, <<"git">>, "unknown",
                                         "awaiting first scan", now),
                    s, <<"filesystem">>, "unknown", "awaiting first scan", now),
                s, SUPPORTED_ADAPTERS, now)
    /\ recorders' = [recorders EXCEPT ![s].pc = "loop"]
    /\ UNCHANGED <<retry, git_repo, rpc, adapter_configs, adapter_log, sidecar, registry, now, nticks, cli, mcp, disk, ret>>

\* A poll loop that nothing ends.
loop_never_ends(stop_requested, state) == FALSE

\* while not self.stop_requested: ... if state in {"stopping", "stopped",
\* None}: break
loop_ends(stop_requested, state) ==
    stop_requested \/ state \in {"stopping", "stopped", NoText}

\* A poll that leaves the loop where it should go on.
next_substep_leaves_loop(substep, is_repo) == "handoff"

\* The body of the loop in run(): _poll_adapters, _poll_git, _poll_filesystem,
\* then the sleep and the next iteration. The git poll of a directory that
\* is not a git work tree writes its 'unavailable' status and returns; the
\* model goes on without that step.
next_substep(substep, is_repo) ==
    CASE substep = "adapters" -> IF is_repo THEN "git" ELSE "scan"
      [] substep = "git" -> "scan"
      [] substep = "filesystem" -> "loop"

\* The head of the loop: the stop flag, then the session state read from the
\* store; a session that is stopping, stopped or missing ends the loop.
\* _poll_adapters returns at once for an adapter that is not configured, so
\* the poll goes on to the scan when none is.
RecorderLoop(s) ==
    /\ s \in DOMAIN recorders
    /\ recorders[s].pc = "loop"
    /\ recorders' = [recorders EXCEPT ![s].pc =
          IF loop_ends(recorders[s].stop_requested, get_session_state(db, s))
          THEN "handoff"
          ELSE IF ConfiguredAdapter \in DOMAIN adapter_configs
          THEN "adapter_read" ELSE next_substep("adapters", git_repo)]
    /\ UNCHANGED <<retry, git_repo, rpc, adapter_configs, adapter_log, db, sidecar, registry, now, nticks, cli, mcp, disk, ret>>

\* bytes.splitlines() on the bytes of the model
RECURSIVE SplitLines(_)
SplitLines(data) ==
    IF data = <<>> THEN <<>>
    ELSE LET breaks == {i \in DOMAIN data : data[i] = "\n"}
         IN  IF breaks = {} THEN <<data>>
             ELSE <<SubSeq(data, 1, Min(breaks) - 1)>>
                  \o SplitLines(SubSeq(data, Min(breaks) + 1, Len(data)))

\* json.loads on a stripped line: the object a JSON text stands for;
\* any other text raises JSONDecodeError.
IsJsonObject(text) == Len(text) = 1 /\ text[1] \in JsonTexts
json_loads_line(text) ==
    LET WithSummary == [NoPayload EXCEPT !.summary = <<"F">>]
    IN  CASE text[1] = "{tool}" -> ToolPayload
          [] text[1] = "{tool,raw_prompt}" -> [ToolPayload EXCEPT !.raw_prompt = <<"S">>]
          [] text[1] = "{decision}" -> [WithSummary EXCEPT !.decision = TRUE]
          [] text[1] = "{status}" -> WithSummary
          [] text[1] = "{plan,decision}" ->
                [WithSummary EXCEPT !.event_type = "agent_plan", !.decision = TRUE]
          [] text[1] = "{plan}" -> [WithSummary EXCEPT !.event_type = "agent_plan"]
          [] text[1] = "{tool,decision}" -> [ToolPayload EXCEPT !.decision = TRUE]

\* What _parse_adapter_line returns for a line it drops: None.
NoParsed ==
    [ event_type |-> NoText, summary |-> <<>>, files_touched |-> {},
      tool_name |-> NoText, tool_purpose |-> NoText, tool_result |-> NoText,
      decision_summary |-> <<>> ]

\* The event type of a JSON line: the explicit one, or tool_use, decision_made
\* or task_status; then decision_made whenever `decision` is true.
adapter_event_type(payload) ==
    LET event_type ==
          IF payload.event_type # NoText THEN payload.event_type
          ELSE IF payload.tool_name # NoText THEN "tool_use"
          ELSE IF payload.decision THEN "decision_made"
          ELSE "task_status"
    IN  IF payload.decision /\ event_type # "decision_made"
        THEN "decision_made" ELSE event_type

\* _parse_adapter_line: None for a blank line; the fields of a JSON object
\* with a non-blank summary; for any other text a task_status with the
\* stripped text as its summary. Of the keys the summary may come from
\* (summary, message, content, text) the model carries the first; no line
\* carries a speaker prefix.
_parse_adapter_line(line) ==
    LET text == Strip(line)
        FromObject(payload) ==
          IF Strip(payload.summary) = <<>> THEN NoParsed
          ELSE [ event_type |-> adapter_event_type(payload),
                 summary |-> payload.summary,
                 files_touched |-> payload.files_touched,
                 tool_name |-> payload.tool_name,
                 tool_purpose |-> IF payload.tool_name = NoText THEN NoText
                                  ELSE IF payload.purpose = NoText THEN ""
                                  ELSE payload.purpose,
                 tool_result |-> IF payload.tool_name = NoText THEN NoText
                                 ELSE IF payload.result = NoText THEN ""
                                 ELSE payload.result,
                 decision_summary |-> payload.decision_summary ]
    IN  IF text = <<>> THEN NoParsed
        ELSE IF IsJsonObject(text) THEN FromObject(json_loads_line(text))
        ELSE [NoParsed EXCEPT !.event_type = "task_status", !.summary = text]

\* The lines of a chunk that _parse_adapter_line accepts, in order.
parsed_lines(data) ==
    SelectSeq([i \in DOMAIN SplitLines(data) |-> _parse_adapter_line(SplitLines(data)[i])],
              LAMBDA parsed : parsed # NoParsed)

\* The insert_event arguments _poll_adapter builds from a parsed line.
adapter_event_args(session_id, parsed, t) ==
    [EventArgs(session_id, parsed.event_type, parsed.summary, parsed.files_touched,
               AdapterSource(ConfiguredAdapter), t)
        EXCEPT !.tool_name = parsed.tool_name,
               !.tool_purpose = parsed.tool_purpose,
               !.tool_result = parsed.tool_result,
               !.decision_summary = parsed.decision_summary]

\* A read that returns a position one byte short of where it ended.
handle_tell_short(file, offset) ==
    IF offset >= Len(file) THEN offset ELSE Len(file) - 1

\* handle.seek(offset); handle.read(): the bytes from the offset to the end
handle_read(file, offset) ==
    IF offset >= Len(file) THEN <<>> ELSE SubSeq(file, offset + 1, Len(file))

\* handle.tell() after that read
handle_tell(file, offset) ==
    IF offset >= Len(file) THEN offset ELSE Len(file)

\* _poll_adapter up to its loop over the lines: the status, the stored
\* offset and the read. The offset row is written by this recorder alone.
RecorderAdapterRead(s) ==
    /\ s \in DOMAIN recorders
    /\ recorders[s].pc = "adapter_read"
    /\ LET rec == recorders[s]
           source == <<"adapter", ConfiguredAdapter>>
           offset == get_adapter_offset(db, s, ConfiguredAdapter, AdapterLogPath)
       IN  IF adapter_log = Absent
           THEN /\ db' = update_source_status(db, s, source, "unavailable",
                                              "missing log file", now)
                /\ recorders' = [recorders EXCEPT ![s].pc =
                                    next_substep("adapters", git_repo)]
           ELSE /\ db' = update_source_status(db, s, source, "available",
                                              AdapterLogPath, now)
                /\ recorders' = [recorders EXCEPT ![s] =
                      IF handle_read(adapter_log, offset) = <<>>
                      THEN [rec EXCEPT !.pc = next_substep("adapters", git_repo)]
                      ELSE [rec EXCEPT
                              !.lines = parsed_lines(handle_read(adapter_log, offset)),
                              !.new_offset = handle_tell(adapter_log, offset),
                              !.pc = IF parsed_lines(handle_read(adapter_log, offset)) = <<>>
                                     THEN "adapter_offset" ELSE "adapter_insert"]]
    /\ UNCHANGED <<retry, git_repo, rpc, adapter_configs, adapter_log, sidecar, registry, now, nticks, cli, mcp, disk, ret>>

\* except OSError: the source is degraded and the poll of the adapter ends.
RecorderAdapterReadError(s) ==
    /\ s \in DOMAIN recorders
    /\ recorders[s].pc = "adapter_read"
    /\ adapter_log # Absent
    /\ db' = update_source_status(
                update_source_status(db, s, <<"adapter", ConfiguredAdapter>>,
                                     "available", AdapterLogPath, now),
                s, <<"adapter", ConfiguredAdapter>>, "degraded", "read error", now)
    /\ recorders' = [recorders EXCEPT ![s].pc = next_substep("adapters", git_repo)]
    /\ UNCHANGED <<retry, git_repo, rpc, adapter_configs, adapter_log, sidecar, registry, now, nticks, cli, mcp, disk, ret>>

\* One pass of the loop over the lines: insert_event for the next parsed
\* line; StorageCapError marks the source degraded and returns, leaving the
\* offset as it was.
RecorderAdapterInsert(s) ==
    /\ s \in DOMAIN recorders
    /\ recorders[s].pc = "adapter_insert"
    /\ db.last_event_id < MaxEvents
    /\ LET rec == recorders[s]
       IN  \E m \in Measurements :
             \E r \in {insert_event(db, sidecar,
                         adapter_event_args(s, Head(rec.lines), now), m, now)} :
                /\ r.err \in {"none", "StorageCapError"}
                /\ db' = IF r.err = "StorageCapError"
                         THEN update_source_status(r.db, s, <<"adapter", ConfiguredAdapter>>,
                                "degraded", "storage cap reached; event dropped", now)
                         ELSE r.db
                /\ sidecar' = r.log
                /\ recorders' = [recorders EXCEPT ![s] =
                      IF r.err = "StorageCapError"
                      THEN [rec EXCEPT !.lines = <<>>,
                                       !.pc = next_substep("adapters", git_repo)]
                      ELSE [rec EXCEPT !.lines = Tail(rec.lines),
                                       !.pc = IF Tail(rec.lines) = <<>>
                                              THEN "adapter_offset" ELSE "adapter_insert"]]
    /\ UNCHANGED <<retry, git_repo, rpc, adapter_configs, adapter_log, registry, now, nticks, cli, mcp, disk, ret>>

\* self.store.set_adapter_offset(self.session_id, adapter, str(log_path),
\* new_offset), after the loop
RecorderAdapterOffset(s) ==
    /\ s \in DOMAIN recorders
    /\ recorders[s].pc = "adapter_offset"
    /\ db' = set_adapter_offset(db, s, ConfiguredAdapter, AdapterLogPath,
                                recorders[s].new_offset)
    /\ recorders' = [recorders EXCEPT ![s].pc = next_substep("adapters", git_repo)]
    /\ UNCHANGED <<retry, git_repo, rpc, adapter_configs, adapter_log, sidecar, registry, now, nticks, cli, mcp, disk, ret>>

\* `ctx adapter configure cursor --log-path ...`: set_adapter_log_path
CliAdapterConfigure ==
    /\ ConfiguredAdapter \notin DOMAIN adapter_configs
    /\ adapter_configs' = (ConfiguredAdapter :> AdapterLogPath) @@ adapter_configs
    /\ UNCHANGED <<retry, git_repo, rpc, adapter_log, db, sidecar, registry, now, nticks, cli, mcp, recorders, disk, ret>>

\* The editor appends a byte to its log, creating the file if need be.
AppendLog(b) ==
    /\ adapter_log = Absent \/ Len(adapter_log) < MaxLogBytes
    /\ adapter_log' = IF adapter_log = Absent THEN <<b>> ELSE Append(adapter_log, b)
    /\ UNCHANGED <<retry, git_repo, rpc, adapter_configs, db, sidecar, registry, now, nticks, cli, mcp, recorders, disk, ret>>

\* The editor appends a JSON object and the line break to its log.
AppendJsonLine(j) ==
    /\ adapter_log = Absent \/ Len(adapter_log) + 2 <= 2 * MaxJsonLines
    /\ adapter_log' = IF adapter_log = Absent THEN <<j, "\n">>
                      ELSE adapter_log \o <<j, "\n">>
    /\ UNCHANGED <<retry, git_repo, rpc, adapter_configs, db, sidecar, registry, now, nticks, cli, mcp, recorders, disk, ret>>

\* The recorder is killed outright (SIGKILL, a crash): nothing is cleaned up.
RecorderKilled(s) ==
    /\ s \in DOMAIN recorders
    /\ recorders[s].pc # "exited"
    /\ recorders' = [recorders EXCEPT ![s] = ExitedRecorder]
    /\ UNCHANGED <<retry, git_repo, rpc, adapter_configs, adapter_log, db, sidecar, registry, now, nticks, cli, mcp, disk, ret>>

\* `git status --porcelain` in a work tree without commits: every file of
\* the tree is untracked, whatever its content, and HEAD does not resolve.
git_status(tree) == {path \in Paths : tree[path] # Absent}

\* f"Git change detected in {len(files)} file(s): {file_preview}{suffix}."
git_change_summary(files) ==
    <<"Git change detected in ", ToString(Cardinality(files)), " file(s): ">>
    \o JoinComma(SortedFiles(files)) \o <<".">>

\* `git init` in the project directory
GitInit ==
    /\ ~git_repo
    /\ git_repo' = TRUE
    /\ UNCHANGED <<retry, rpc, adapter_configs, adapter_log, db, sidecar, registry, now, nticks, cli, mcp, recorders, disk, ret>>

\* _poll_git up to its insert_event: the status, the 'available' heartbeat
\* and the comparison with the last snapshot.
RecorderGit(s) ==
    /\ s \in DOMAIN recorders
    /\ recorders[s].pc = "git"
    /\ db' = update_source_status(db, s, <<"git">>, "available", "head=NO_HEAD", now)
    /\ LET rec == recorders[s]
           snapshot == [taken |-> TRUE, status |-> git_status(disk)]
       IN  recorders' = [recorders EXCEPT ![s] =
              IF ~rec.last_git_snapshot.taken
              THEN [rec EXCEPT !.last_git_snapshot = snapshot,
                               !.pc = next_substep("git", git_repo)]
              ELSE IF snapshot = rec.last_git_snapshot
              THEN [rec EXCEPT !.pc = next_substep("git", git_repo)]
              ELSE [rec EXCEPT !.git_current = snapshot.status,
                               !.pc = "git_insert"]]
    /\ UNCHANGED <<retry, git_repo, rpc, adapter_configs, adapter_log, sidecar, registry, now, nticks, cli, mcp, disk, ret>>

\* The rest of _poll_git for a status that changed: a code_change event for
\* the files listed, or a revert event when the list became empty;
\* StorageCapError marks the source degraded; last_git_snapshot follows in
\* either case. The head being the same, a status that changed to empty was
\* not empty before.
RecorderGitInsert(s) ==
    /\ s \in DOMAIN recorders
    /\ recorders[s].pc = "git_insert"
    /\ db.last_event_id < MaxEvents
    /\ LET rec == recorders[s]
           files == rec.git_current
           args == IF files # {}
                   THEN EventArgs(s, "code_change", git_change_summary(files),
                                  files, "git", now)
                   ELSE EventArgs(s, "revert",
                                  <<"Git working tree reverted to clean state.">>,
                                  {}, "git", now)
           dropped == IF files # {} THEN "storage cap reached; git event dropped"
                      ELSE "storage cap reached; git revert event dropped"
       IN  \E m \in Measurements :
             \E r \in {insert_event(db, sidecar, args, m, now)} :
                /\ r.err \in {"none", "StorageCapError"}
                /\ db' = IF r.err = "StorageCapError"
                         THEN update_source_status(r.db, s, <<"git">>, "degraded",
                                                   dropped, now)
                         ELSE r.db
                /\ sidecar' = r.log
                /\ recorders' = [recorders EXCEPT ![s] =
                      [rec EXCEPT !.last_git_snapshot =
                                      [taken |-> TRUE, status |-> files],
                                  !.git_current = {},
                                  !.pc = next_substep("git", git_repo)]]
    /\ UNCHANGED <<retry, git_repo, rpc, adapter_configs, adapter_log, registry, now, nticks, cli, mcp, disk, ret>>

\* The paths of a poll in the order record_file_transition is called for
\* them: added, then modified, then removed.
change_rank(last, current, path) ==
    IF last[path] = Absent THEN 1
    ELSE IF current[path] # Absent THEN 2
    ELSE 3

changed_paths(last, current) == {path \in Paths : last[path] # current[path]}

\* _poll_filesystem up to its first record_file_transition: the scan, the
\* "scan ok" heartbeat, and on the first poll the seeding of file_state.
RecorderScan(s) ==
    /\ s \in DOMAIN recorders
    /\ recorders[s].pc = "scan"
    /\ LET rec == recorders[s]
           current == disk
           d1 == update_source_status(db, s, <<"filesystem">>, "available",
                                      "scan ok", now)
           present == {path \in Paths : current[path] # Absent}
       IN  IF ~rec.scanned
           THEN /\ db' = initialize_file_state(d1, [path \in present |-> current[path]], now)
                /\ recorders' = [recorders EXCEPT ![s] =
                      [rec EXCEPT !.scanned = TRUE, !.last_file_snapshot = current,
                                  !.pc = next_substep("filesystem", git_repo)]]
           ELSE /\ db' = d1
                /\ recorders' = [recorders EXCEPT ![s] =
                      IF changed_paths(rec.last_file_snapshot, current) = {}
                      THEN [rec EXCEPT !.last_file_snapshot = current,
                                       !.pc = next_substep("filesystem", git_repo)]
                      ELSE [rec EXCEPT !.current = current,
                                       !.changed = changed_paths(rec.last_file_snapshot, current),
                                       !.pc = "transitions"]]
    /\ UNCHANGED <<retry, git_repo, rpc, adapter_configs, adapter_log, sidecar, registry, now, nticks, cli, mcp, disk, ret>>

\* One pass of the loop over `changed`: record_file_transition for the next
\* path; StorageCapError marks the source degraded and abandons the rest.
\* After the loop last_file_snapshot becomes the scan.
RecorderTransition(s) ==
    /\ s \in DOMAIN recorders
    /\ recorders[s].pc = "transitions"
    /\ db.last_event_id < MaxEvents
    /\ LET rec == recorders[s]
           rank(path) == change_rank(rec.last_file_snapshot, rec.current, path)
       IN  \E path \in rec.changed, m \in Measurements :
             /\ \A other \in rec.changed : rank(path) <= rank(other)
             /\ \E r \in {record_file_transition(db, sidecar, s, "filesystem", path,
                            IF rec.current[path] = Absent
                            THEN DELETED_FILE_HASH ELSE rec.current[path],
                            now, m, now)} :
                LET rest == IF r.err = "StorageCapError" THEN {}
                            ELSE rec.changed \ {path}
                IN  /\ r.err \in {"none", "StorageCapError"}
                    /\ db' = IF r.err = "StorageCapError"
                             THEN update_source_status(r.db, s, <<"filesystem">>,
                                    "degraded", "storage cap reached; file event dropped", now)
                             ELSE r.db
                    /\ sidecar' = r.log
                    /\ recorders' = [recorders EXCEPT ![s] =
                          IF rest = {}
                          THEN [rec EXCEPT !.changed = {},
                                           !.last_file_snapshot = rec.current,
                                           !.pc = next_substep("filesystem", git_repo)]
                          ELSE [rec EXCEPT !.changed = rest]]
    /\ UNCHANGED <<retry, git_repo, rpc, adapter_configs, adapter_log, registry, now, nticks, cli, mcp, disk, ret>>

\* After the loop: the best-effort handoff event (any exception is swallowed)
RecorderHandoff(s) ==
    /\ s \in DOMAIN recorders
    /\ recorders[s].pc = "handoff"
    /\ db.last_event_id < MaxEvents
    /\ \E m \in Measurements :
         \E r \in {insert_event(db, sidecar,
                     EventArgs(s, "handoff", <<"Recorder stopped cleanly.">>, {},
                               "recorder", now), m, now)} :
             /\ db' = r.db
             /\ sidecar' = r.log
    /\ recorders' = [recorders EXCEPT ![s].pc = "mark_stopped"]
    /\ UNCHANGED <<retry, git_repo, rpc, adapter_configs, adapter_log, registry, now, nticks, cli, mcp, disk, ret>>

\* self.store.set_session_state(self.session_id, "stopped")
RecorderMarkStopped(s) ==
    /\ s \in DOMAIN recorders
    /\ recorders[s].pc = "mark_stopped"
    /\ db' = set_session_state(db, s, "stopped")
    /\ recorders' = [recorders EXCEPT ![s].pc = "clear_registry"]
    /\ UNCHANGED <<retry, git_repo, rpc, adapter_configs, adapter_log, sidecar, registry, now, nticks, cli, mcp, disk, ret>>

\* self.registry.set_recording_state(self.project_path, "stopped", None, None)
RecorderClearRegistry(s) ==
    /\ s \in DOMAIN recorders
    /\ recorders[s].pc = "clear_registry"
    /\ registry' = set_recording_state(registry, "stopped", NoId, NoId)
    /\ recorders' = [recorders EXCEPT ![s] = ExitedRecorder]
    /\ UNCHANGED <<retry, git_repo, rpc, adapter_configs, adapter_log, db, sidecar, now, nticks, cli, mcp, disk, ret>>

----------------------------------------------------------------------------
(* The working tree. *)

WriteFile(path, h) ==
    /\ disk[path] # h
    /\ disk' = [disk EXCEPT ![path] = h]
    /\ UNCHANGED <<retry, git_repo, rpc, adapter_configs, adapter_log, db, sidecar, registry, now, nticks, cli, mcp, recorders, ret>>

DeleteFile(path) ==
    /\ disk[path] # Absent
    /\ disk' = [disk EXCEPT ![path] = Absent]
    /\ UNCHANGED <<retry, git_repo, rpc, adapter_configs, adapter_log, db, sidecar, registry, now, nticks, cli, mcp, recorders, ret>>

----------------------------------------------------------------------------
(* The MCP server: MCPServer._handle_tool. A server handles one request at  *)
(* a time; several servers (one per editor) share the project store.        *)

\* The answer to an append_event call: ret holds the latest one.
McpRet(id, err) == [id |-> id, err |-> err]

\* start_chat_session up to the store's answer to get_active_session(): a
\* client other than cursor or claude is refused; a running session is
\* attached to; otherwise a session is to be created.
McpStartLookup(p) ==
    /\ mcp[p].pc = "idle"
    /\ \E client \in Clients :
         IF client \notin McpClientsAccepted
         THEN UNCHANGED mcp
         ELSE \E active \in get_active_session(db) :
                    mcp' = [mcp EXCEPT ![p] =
                       [pc |-> IF active # NoId THEN "start_heartbeat" ELSE "start_create",
                        session_id |-> active,
                        args |-> [NoCall EXCEPT !.client = client]]]
    /\ UNCHANGED <<retry, git_repo, rpc, adapter_configs, adapter_log, db, sidecar, registry, now, nticks, cli, recorders, disk, ret>>

\* start_chat_session with an external_session_ref, up to the store's answer
\* to get_active_session(). While a session runs the handler calls
\* store.set_session_external_ref, a method ProjectStore does not have: the
\* AttributeError is answered with -32603 and nothing is written.
McpStartLookupRef(p) ==
    /\ mcp[p].pc = "idle"
    /\ \E client \in McpClientsAccepted, active \in get_active_session(db) :
         IF active # NoId
         THEN /\ ret' = McpRet(NoId, "-32603")
              /\ UNCHANGED mcp
         ELSE /\ mcp' = [mcp EXCEPT ![p] =
                     [pc |-> "start_create", session_id |-> NoId,
                      args |-> [NoCall EXCEPT !.client = client,
                                              !.external_session_ref = "chat-1"]]]
              /\ UNCHANGED ret
    /\ UNCHANGED <<retry, git_repo, rpc, adapter_configs, adapter_log, db, sidecar, registry, now, nticks, cli, recorders, disk>>

\* session_id = self.store.create_session(agent=client, ...)
McpStartCreate(p) ==
    /\ mcp[p].pc = "start_create"
    /\ Len(db.sessions) < MaxSessions
    /\ db' = create_session(db, mcp[p].args.client,
                            mcp[p].args.external_session_ref, now)
    /\ mcp' = [mcp EXCEPT ![p].pc = "start_heartbeat",
                          ![p].session_id = created_session_id(db)]
    /\ UNCHANGED <<retry, git_repo, rpc, adapter_configs, adapter_log, sidecar, registry, now, nticks, cli, recorders, disk, ret>>

\* update_source_status(session_id, "mcp:<client>", "available", "started ..")
McpStartHeartbeat(p) ==
    /\ mcp[p].pc = "start_heartbeat"
    /\ db' = update_source_status(db, mcp[p].session_id, <<"mcp", mcp[p].args.client>>,
                                  "available", "started", now)
    /\ mcp' = [mcp EXCEPT ![p] = IdleMcp]
    /\ UNCHANGED <<retry, git_repo, rpc, adapter_configs, adapter_log, sidecar, registry, now, nticks, cli, recorders, disk, ret>>

\* stop_chat_session: set_session_state(int(session_id), "stopped") for
\* whatever id the caller names.
McpStopChatSession(p) ==
    /\ mcp[p].pc = "idle"
    /\ \E session_id \in 1..MaxSessions :
         db' = set_session_state(db, session_id, "stopped")
    /\ UNCHANGED <<retry, git_repo, rpc, adapter_configs, adapter_log, sidecar, registry, now, nticks, cli, mcp, recorders, disk, ret>>

\* The summaries a caller of ProjectStore.insert_event may pass: empty,
\* whitespace only, padded with whitespace runs inside, and one longer than
\* SUMMARY_MAX_CHARS whose character at that position is a space.
LongSummary ==
    [i \in 1..(SUMMARY_MAX_CHARS + 2) |-> IF i = SUMMARY_MAX_CHARS THEN " " ELSE "F"]
CallerSummaries ==
    { <<>>, <<" ", "\t">>, <<" ", "F", " ", "\n", "X", "\t">>, LongSummary }

\* ProjectStore.insert_event called directly, as `ctx` commands and the
\* tests call it, for a session of the store.
StoreInsertEvent ==
    /\ db.last_event_id < MaxAppended
    /\ \E session_id \in SessionIds(db), summary \in CallerSummaries,
          m \in Measurements :
         \E r \in {insert_event(db, sidecar,
                     EventArgs(session_id, "task_status", summary, {}, "cli", now),
                     m, now)} :
             /\ db' = r.db
             /\ sidecar' = r.log
             /\ ret' = [id |-> r.id, err |-> r.err]
    /\ UNCHANGED <<retry, git_repo, rpc, adapter_configs, adapter_log, registry, now, nticks, cli, mcp, recorders, disk>>

\* tools/call ping arrives: the server has read the request and its client
\* argument.
McpPingCall(p) ==
    /\ mcp[p].pc = "idle"
    /\ \E client \in SUPPORTED_MCP_CLIENTS :
         mcp' = [mcp EXCEPT ![p] =
                    [IdleMcp EXCEPT !.pc = "ping", !.args.client = client]]
    /\ UNCHANGED <<retry, git_repo, rpc, adapter_configs, adapter_log, db, sidecar, registry, now, nticks, cli, recorders, disk, ret>>

\* ping: a client other than cursor and claude is refused with -32602;
\* otherwise the active session, if any, gets the mcp:<client> heartbeat and
\* the answer carries its id.
McpPing(p) ==
    /\ mcp[p].pc = "ping"
    /\ \E active \in get_active_session(db) :
         IF mcp[p].args.client \notin McpClientsAccepted
         THEN /\ ret' = McpRet(NoId, "-32602")
              /\ UNCHANGED db
         ELSE /\ ret' = McpRet(active, "none")
              /\ db' = IF active = NoId THEN db
                       ELSE update_source_status(db, active,
                               <<"mcp", mcp[p].args.client>>, "available",
                               "heartbeat", now)
    /\ mcp' = [mcp EXCEPT ![p] = IdleMcp]
    /\ UNCHANGED <<retry, git_repo, rpc, adapter_configs, adapter_log, sidecar, registry, now, nticks, cli, recorders, disk>>

\* The append_event calls the model makes. session_id = NoId: the caller
\* names no session and the server resolves the active one.
AppendCalls ==
    { [event_type |-> "task_status", summary |-> <<"F", "i", "x">>,
       files_touched |-> {"a.py"}, decision |-> FALSE, tool_name |-> NoText,
       client |-> "cursor"],
      [event_type |-> NoText, summary |-> <<" ", "f", "i", "x", " ">>,
       files_touched |-> {" a.py"}, decision |-> FALSE, tool_name |-> NoText,
       client |-> "codex"],
      [event_type |-> "decision_made", summary |-> <<"F", "i", "x">>,
       files_touched |-> {}, decision |-> TRUE, tool_name |-> "pytest",
       client |-> "cursor"],
      [event_type |-> "task_status", summary |-> <<" ">>,
       files_touched |-> {}, decision |-> FALSE, tool_name |-> NoText,
       client |-> "cursor"] }

\* append_event up to insert_event: the session is resolved, the summary is
\* stripped and must not be empty.
McpAppendResolve(p) ==
    /\ mcp[p].pc = "idle"
    /\ \E call \in AppendCalls, named \in {NoId} \cup SessionIds(db),
          active \in get_active_session(db) :
         LET session_id == IF named # NoId THEN named ELSE active
         IN  IF session_id = NoId
             THEN /\ ret' = McpRet(NoId, "-32010")
                  /\ UNCHANGED mcp
             ELSE IF Strip(call.summary) = <<>>
             THEN /\ ret' = McpRet(NoId, "-32602")
                  /\ UNCHANGED mcp
             ELSE /\ mcp' = [mcp EXCEPT ![p] =
                       [pc |-> "append_insert", session_id |-> session_id,
                        args |-> [call EXCEPT !.summary = Strip(call.summary)]]]
                  /\ UNCHANGED ret
    /\ UNCHANGED <<retry, git_repo, rpc, adapter_configs, adapter_log, db, sidecar, registry, now, nticks, cli, recorders, disk>>

\* The insert_event arguments append_event builds from a call; its coercion
\* of the event type is the one the store applies again.
append_event_args(session_id, call, t) ==
    [EventArgs(session_id, call.event_type, call.summary, call.files_touched,
               IF call.client \in McpClientsAccepted
               THEN <<"mcp", call.client>> ELSE <<"mcp", "unknown">>, t)
        EXCEPT !.event_type = safe_event_type(call.event_type),
               !.tool_name = call.tool_name,
               !.decision_summary = IF call.decision THEN call.summary ELSE <<>>]

\* event_id = self.store.insert_event(...); an exception of the store is
\* answered with an error. The process keeps no memory of the call, so the
\* next call finds it idle whether it is the same server or a new one.
McpAppendInsert(p) ==
    /\ mcp[p].pc = "append_insert"
    /\ db.last_event_id < MaxAppended
    /\ \E m \in Measurements :
         \E r \in {insert_event(db, sidecar,
                     append_event_args(mcp[p].session_id, mcp[p].args, now),
                     m, now)} :
             /\ db' = r.db
             /\ sidecar' = r.log
             /\ ret' = McpRet(r.id, r.err)
             /\ mcp' = [mcp EXCEPT ![p] =
                   IF r.err = "none" /\ mcp[p].args.client \in McpClientsAccepted
                   THEN [mcp[p] EXCEPT !.pc = "append_heartbeat"]
                   ELSE IdleMcp]
    /\ UNCHANGED <<retry, git_repo, rpc, adapter_configs, adapter_log, registry, now, nticks, cli, recorders, disk>>

\* update_source_status(session_id, "mcp:<client>", "available", "heartbeat ..")
McpAppendHeartbeat(p) ==
    /\ mcp[p].pc = "append_heartbeat"
    /\ db' = update_source_status(db, mcp[p].session_id,
                                  <<"mcp", mcp[p].args.client>>,
                                  "available", "heartbeat", now)
    /\ mcp' = [mcp EXCEPT ![p] = IdleMcp]
    /\ UNCHANGED <<retry, git_repo, rpc, adapter_configs, adapter_log, sidecar, registry, now, nticks, cli, recorders, disk, ret>>

----------------------------------------------------------------------------
(* The MCP server's transport: serve(), _read_message, _write_message.      *)
(* stdin is the sequence of lines the client has written and the server has *)
(* not read; the payload of a length-prefixed message is one such line, its *)
(* Content-Length being right. The client numbers its requests by their     *)
(* place in the stream, and sends its notifications without an id.          *)

\* The header line of a length-prefixed message, and the empty line.
ContentLengthLine == "Content-Length: n"
BlankLine == ""
\* One-line JSON texts, by what they ask for.
RequestLines ==
    {"initialize", "notifications/initialized", "no/such/method",
     "tools/call without name", "tools/call append_event",
     "tools/call append_event session_id=1",
     "tools/call get_context max_events='x'", "notifications/cancelled"}
\* The messages the client sends without an "id" member.
Notifications == {"notifications/initialized", "notifications/cancelled"}
\* A line that is not JSON.
GarbageLine == "not json"
InputLines == {ContentLengthLine, BlankLine, GarbageLine} \cup RequestLines

\* A transport that takes the framing of each message it reads.
transport_mode_follows(mode, first_line) ==
    IF first_line = ContentLengthLine THEN "lsp" ELSE "jsonl"

\* if self._transport_mode == "auto": self._transport_mode = "lsp" / "jsonl"
transport_mode_after(mode, first_line) ==
    IF mode # "auto" THEN mode
    ELSE IF first_line = ContentLengthLine THEN "lsp" ELSE "jsonl"

\* json.loads of a line or payload: the request, or <<>> for JSONDecodeError
json_loads(line) == IF line \in RequestLines THEN <<line>> ELSE <<>>

\* _read_message on the unread input. The outcomes: "blocked" (a read waits
\* for the client), "eof" (None is returned), "message" and "error" (MCPError
\* -32700); `rest` is the input left unread.
_read_message(stdin, stdin_open) ==
    LET Outcome(kind, request, rest) ==
          [kind |-> kind, request |-> request, rest |-> rest]
        AtEnd(kind) == IF stdin_open THEN Outcome("blocked", NoText, stdin)
                       ELSE Outcome(kind, NoText, <<>>)
        Decoded(line, rest) ==
          IF json_loads(line) = <<>> THEN Outcome("error", NoText, rest)
          ELSE Outcome("message", json_loads(line)[1], rest)
        Payload(i) ==
          IF i > Len(stdin) THEN AtEnd("eof")
          ELSE Decoded(stdin[i], SubSeq(stdin, i + 1, Len(stdin)))
        Headers(blanks) ==
          IF blanks = {} THEN AtEnd("error") ELSE Payload(Min(blanks) + 1)
    IN  IF stdin = <<>> THEN AtEnd("eof")
        ELSE IF Head(stdin) = ContentLengthLine
        THEN Headers({i \in 2..Len(stdin) : stdin[i] = BlankLine})
        ELSE Decoded(Head(stdin), Tail(stdin))

\* message.get("id") of the message whose JSON text is line number
\* `position` of the stream; NoId stands for None.
message_id(request, position) ==
    IF request \in Notifications THEN NoId ELSE position

\* The frame _write_message writes for a response.
_write_message(mode, response) ==
    [ framing |-> IF mode = "jsonl" THEN "jsonl" ELSE "lsp",
      kind |-> response.kind, code |-> response.code, id |-> response.id ]

\* The responses of _jsonrpc_result and _jsonrpc_error, and no response.
JsonRpcResult == [kind |-> "result", code |-> 0]
JsonRpcError(code) == [kind |-> "error", code |-> code]
NoResponse == [kind |-> "none", code |-> 0]

\* The arguments of the append_event calls of the model.
RpcAppendCall == [NoCall EXCEPT !.summary = <<"F">>]

\* _handle_request and _handle_tool without the store's part: the response,
\* the MCPError raised (its code) or another exception ("internal"). An
\* append_event that has a session goes on to insert_event ("insert").
_handle_request(request, active_session_id) ==
    CASE request = "initialize" -> JsonRpcResult
      [] request = "notifications/initialized" -> NoResponse
      [] request = "tools/call without name" -> JsonRpcError(-32602)
      [] request = "tools/call append_event" ->
            IF active_session_id = NoId THEN JsonRpcError(-32010)
            ELSE [kind |-> "insert", code |-> active_session_id]
      [] request = "tools/call append_event session_id=1" ->
            [kind |-> "insert", code |-> 1]
      [] request = "tools/call get_context max_events='x'" ->
            [kind |-> "internal", code |-> -32603]
      [] OTHER -> JsonRpcError(-32601)

\* except MCPError: request_id = message.get("id") if isinstance(message,
\* dict) else None, and None when that raises: `message` is what the last
\* successful _read_message returned, in this pass or in an earlier one.
exception_request_id(message) == IF message.bound THEN message.id ELSE NoId

\* What one pass of serve() leaves behind, given what was read, the response
\* or exception of the handler and the store after it: the frame written, if
\* any, and whether the loop goes on. A write to a closed pipe raises out of
\* serve().
served(read, response, store) ==
    LET mode == transport_mode_after(rpc.transport_mode, Head(rpc.stdin))
        message == IF read.kind = "error" THEN rpc.message
                   ELSE [ bound |-> TRUE, request |-> read.request,
                          id |-> message_id(read.request,
                                            rpc.sent - Len(read.rest)) ]
        Left(answer, request_id, pc) ==
          [ rpc |-> [rpc EXCEPT
                       !.transport_mode = mode,
                       !.stdin = read.rest,
                       !.message = message,
                       !.stdout = IF answer.kind = "none" \/ ~rpc.stdout_open THEN @
                                  ELSE Append(@, _write_message(mode,
                                         [ kind |-> answer.kind, code |-> answer.code,
                                           id |-> request_id ])),
                       !.pc = IF answer.kind # "none" /\ ~rpc.stdout_open
                              THEN "raised" ELSE pc],
            db |-> store.db, log |-> store.log ]
    IN  IF read.kind = "error"
        THEN Left(JsonRpcError(-32700), exception_request_id(message), "serving")
        ELSE IF response.kind = "internal"
        THEN Left(JsonRpcError(-32603), NoId, "returned")
        ELSE IF response.kind = "error"
        THEN Left(response, exception_request_id(message), "serving")
        ELSE IF message.id = NoId
        THEN Left(NoResponse, NoId, "serving")
        ELSE Left(response, message.id, "serving")

\* One pass of the loop of serve(): a message is read, handled and answered.
RpcServe ==
    /\ rpc.pc = "serving"
    /\ rpc.stdin # <<>>
    /\ db.last_event_id < MaxEvents
    /\ \E read \in {_read_message(rpc.stdin, rpc.stdin_open)}, m \in Measurements :
         /\ read.kind \in {"message", "error"}
         /\ \E asked \in {IF read.kind = "message"
                          THEN _handle_request(read.request,
                                   CHOOSE a \in get_active_session(db) : TRUE)
                          ELSE NoResponse} :
              \E store \in {IF asked.kind = "insert"
                            THEN insert_event(db, sidecar,
                                     append_event_args(asked.code, RpcAppendCall, now),
                                     m, now)
                            ELSE [db |-> db, log |-> sidecar, id |-> NoId, err |-> "none"]} :
                \E after \in {served(read,
                                     IF asked.kind # "insert" THEN asked
                                     ELSE IF store.err = "none" THEN JsonRpcResult
                                     ELSE [kind |-> "internal", code |-> -32603],
                                     store)} :
                   /\ rpc' = after.rpc
                   /\ db' = after.db
                   /\ sidecar' = after.log
    /\ UNCHANGED <<retry, git_repo, adapter_configs, adapter_log, registry, now, nticks, cli, mcp, recorders, disk, ret>>

\* _read_message returns None: the input has ended, or ended where the
\* payload was to begin. serve() returns 0.
RpcEndOfInput ==
    /\ rpc.pc = "serving"
    /\ _read_message(rpc.stdin, rpc.stdin_open).kind = "eof"
    /\ rpc' = [rpc EXCEPT
                 !.pc = "returned",
                 !.stdin = <<>>,
                 !.transport_mode =
                    IF rpc.stdin = <<>> THEN @
                    ELSE transport_mode_after(@, Head(rpc.stdin))]
    /\ UNCHANGED <<retry, git_repo, adapter_configs, adapter_log, db, sidecar, registry, now, nticks, cli, mcp, recorders, disk, ret>>

\* The client writes a line to the server.
ClientSend(line) ==
    /\ rpc.stdin_open
    /\ rpc.sent < MaxInputLines
    /\ rpc' = [rpc EXCEPT !.stdin = Append(@, line), !.sent = @ + 1]
    /\ UNCHANGED <<retry, git_repo, adapter_configs, adapter_log, db, sidecar, registry, now, nticks, cli, mcp, recorders, disk, ret>>

\* The client closes its end of the server's input.
ClientCloseInput ==
    /\ rpc.stdin_open
    /\ rpc' = [rpc EXCEPT !.stdin_open = FALSE]
    /\ UNCHANGED <<retry, git_repo, adapter_configs, adapter_log, db, sidecar, registry, now, nticks, cli, mcp, recorders, disk, ret>>

\* The client stops reading the server's output.
ClientCloseOutput ==
    /\ rpc.stdout_open
    /\ rpc' = [rpc EXCEPT !.stdout_open = FALSE]
    /\ UNCHANGED <<retry, git_repo, adapter_configs, adapter_log, db, sidecar, registry, now, nticks, cli, mcp, recorders, disk, ret>>

----------------------------------------------------------------------------
(* Specifications. *)

CliStep(p) ==
    \/ CliStartRead(p)
    \/ CliStartRepairSession(p)
    \/ CliStartRepairRegistry(p)
    \/ CliStartMetadata(p)
    \/ CliStartCreate(p)
    \/ CliStartRegister(p)
    \/ CliStopRead(p)
    \/ CliStopStopping(p)
    \/ CliStopWaited(p)
    \/ CliStopTimeout(p)
    \/ CliStopStopped(p)
    \/ CliStopRegistry(p)

RecorderLifecycle(s) ==
    \/ RecorderStartup(s)
    \/ RecorderLoop(s)
    \/ RecorderScan(s)
    \/ RecorderHandoff(s)
    \/ RecorderMarkStopped(s)
    \/ RecorderClearRegistry(s)
    \/ RecorderKilled(s)

McpStartStep(p) ==
    \/ McpStartLookup(p)
    \/ McpStartCreate(p)
    \/ McpStartHeartbeat(p)

McpAppendStep(p) ==
    \/ McpAppendResolve(p)
    \/ McpAppendInsert(p)
    \/ McpAppendHeartbeat(p)

\* Session lifecycle: operators, recorders and MCP servers on one project.
NextSession ==
    \/ \E p \in CliProcs : CliStep(p)
    \/ \E s \in 1..MaxSessions : RecorderLifecycle(s)
    \/ \E p \in McpProcs : McpStartStep(p) \/ McpStopChatSession(p)

SpecSession == Init /\ [][NextSession]_vars

\* The file engine: one operator, the recorders they start, a working tree
\* that changes under them, and time.
NextFile ==
    \/ CliStartRead(1) \/ CliStartRepairSession(1) \/ CliStartRepairRegistry(1)
    \/ CliStartMetadata(1) \/ CliStartCreate(1) \/ CliStartRegister(1)
    \/ \E s \in 1..MaxSessions :
          \/ RecorderStartup(s) \/ RecorderLoop(s) \/ RecorderScan(s)
          \/ RecorderTransition(s) \/ RecorderKilled(s)
    \/ \E path \in Paths, h \in Hashes : WriteFile(path, h)
    \/ \E path \in Paths : DeleteFile(path)
    \/ Day

SpecFile == Init /\ [][NextFile]_vars

\* Event ingestion over MCP: servers that open chat sessions and append
\* events, and time.
NextInsert ==
    \/ \E p \in McpProcs : McpStartStep(p) \/ McpAppendStep(p)
    \/ Tick

SpecInsert == Init /\ [][NextInsert]_vars

\* Compaction: one recording session over a changing working tree, with
\* events of different ages.
NextCompact ==
    \/ CliStartRead(1) \/ CliStartMetadata(1) \/ CliStartCreate(1)
    \/ CliStartRegister(1)
    \/ RecorderStartup(1) \/ RecorderLoop(1) \/ RecorderScan(1)
    \/ RecorderTransition(1)
    \/ \E path \in Paths, h \in Hashes : WriteFile(path, h)
    \/ \E path \in Paths : DeleteFile(path)
    \/ Tick
    \/ Day

SpecCompact == Init /\ [][NextCompact]_vars

\* Ingestion across compaction: one server that opens a chat session, two
\* that append to it, and events that grow old.
NextIds ==
    \/ McpStartStep(1)
    \/ \E p \in McpProcs : McpAppendStep(p)
    \/ Tick
    \/ Day

SpecIds == Init /\ [][NextIds]_vars

\* Stopping a recording: one operator who starts and stops, a client that
\* stops sessions over MCP, and recorders that are not killed. Every process
\* that is running keeps running: a recorder takes its next step, and a
\* command that has begun runs to its end.
NextStop ==
    \/ CliStep(1)
    \/ \E s \in 1..MaxSessions :
          \/ RecorderStartup(s) \/ RecorderLoop(s) \/ RecorderScan(s)
          \/ RecorderHandoff(s) \/ RecorderMarkStopped(s)
          \/ RecorderClearRegistry(s)
    \/ McpStopChatSession(1)

RecorderRuns(s) ==
    \/ RecorderStartup(s) \/ RecorderLoop(s) \/ RecorderScan(s)
    \/ RecorderHandoff(s) \/ RecorderMarkStopped(s) \/ RecorderClearRegistry(s)

CommandRuns(p) ==
    \/ CliStartRepairSession(p) \/ CliStartRepairRegistry(p)
    \/ CliStartMetadata(p) \/ CliStartCreate(p) \/ CliStartRegister(p)
    \/ CliStopStopping(p) \/ CliStopWaited(p) \/ CliStopTimeout(p)
    \/ CliStopStopped(p) \/ CliStopRegistry(p)

SpecStop ==
    /\ Init /\ [][NextStop]_vars
    /\ \A s \in 1..MaxSessions : WF_vars(RecorderRuns(s))
    /\ WF_vars(CommandRuns(1))

\* Start and stop by the operator alone: `ctx start`, the recorder it spawns
\* polling an unchanging working tree, `ctx stop`; processes keep running as
\* in SpecStop.
NextStartStop ==
    \/ CliStartRead(1) \/ CliStartMetadata(1) \/ CliStartCreate(1)
    \/ CliStartRegister(1)
    \/ CliStopRead(1) \/ CliStopStopping(1) \/ CliStopWaited(1)
    \/ CliStopTimeout(1) \/ CliStopStopped(1) \/ CliStopRegistry(1)
    \/ \E s \in 1..MaxSessions : RecorderRuns(s)

SpecStartStop ==
    /\ Init /\ [][NextStartStop]_vars
    /\ \A s \in 1..MaxSessions : WF_vars(RecorderRuns(s))
    /\ WF_vars(CommandRuns(1))

\* Adapter log tailing: one recording session, a configured adapter and a
\* log that grows under the recorder.
NextAdapter ==
    \/ CliAdapterConfigure
    \/ \E b \in LogBytes : AppendLog(b)
    \/ CliStartRead(1) \/ CliStartMetadata(1) \/ CliStartCreate(1)
    \/ CliStartRegister(1)
    \/ RecorderStartup(1) \/ RecorderLoop(1) \/ RecorderAdapterRead(1)
    \/ RecorderAdapterReadError(1) \/ RecorderAdapterInsert(1)
    \/ RecorderAdapterOffset(1) \/ RecorderScan(1)
    \/ Tick

SpecAdapter == Init /\ [][NextAdapter]_vars

\* Chat sessions over MCP: servers that start sessions, with and without an
\* external reference, and stop them.
NextChat ==
    \E p \in McpProcs :
        \/ McpStartLookup(p) \/ McpStartLookupRef(p) \/ McpStartCreate(p)
        \/ McpStartHeartbeat(p) \/ McpStopChatSession(p)

SpecChat == Init /\ [][NextChat]_vars

\* Polling at the storage cap: one recording session over a git work tree
\* with a configured adapter, files that come and go and a log that grows.
NextPoll ==
    \/ CliAdapterConfigure
    \/ GitInit
    \/ AppendJsonLine("{status}")
    \/ CliStartRead(1) \/ CliStartMetadata(1) \/ CliStartCreate(1)
    \/ CliStartRegister(1)
    \/ RecorderStartup(1) \/ RecorderLoop(1)
    \/ RecorderAdapterRead(1) \/ RecorderAdapterInsert(1) \/ RecorderAdapterOffset(1)
    \/ RecorderGit(1) \/ RecorderGitInsert(1)
    \/ RecorderScan(1) \/ RecorderTransition(1)
    \/ \E path \in Paths : WriteFile(path, "h1") \/ DeleteFile(path)

SpecPoll == Init /\ [][NextPoll]_vars

\* The event log over its whole life: one recording session over a working
\* tree that changes, a client that appends events and repeats them,
\* and events that grow old enough to be compacted.
NextLog ==
    \/ CliStartRead(1) \/ CliStartMetadata(1) \/ CliStartCreate(1)
    \/ CliStartRegister(1)
    \/ RecorderStartup(1) \/ RecorderLoop(1) \/ RecorderScan(1)
    \/ RecorderTransition(1)
    \/ \E path \in Paths : WriteFile(path, "h1") \/ DeleteFile(path)
    \/ McpAppendStep(1)
    \/ Day

SpecLog == Init /\ [][NextLog]_vars

\* Lock contention: operations whose transactions run into locks held by
\* other processes, and into other errors. A run of the transaction ends:
\* sqlite3 waits for a lock no longer than its timeout.
NextRetry ==
    \/ \E operation \in RetriedOperations : RetryCall(operation)
    \/ \E outcome \in RunOutcomes : RetryAttempt(outcome)

SpecRetry ==
    /\ Init /\ [][NextRetry]_vars
    /\ WF_vars(\E outcome \in RunOutcomes : RetryAttempt(outcome))

\* Summaries: a store with a session, and callers that insert events with
\* summaries of every shape.
NextSummary ==
    \/ McpStartStep(1)
    \/ StoreInsertEvent
    \/ Tick

SpecSummary == Init /\ [][NextSummary]_vars

\* The clients of one MCP server: sessions started, events appended and
\* pings, under every supported client name.
NextClients ==
    \/ McpStartStep(1) \/ McpAppendStep(1)
    \/ McpPingCall(1) \/ McpPing(1)
    \/ Tick

SpecClients == Init /\ [][NextClients]_vars

\* Ingestion of what the editors report: JSON lines in the adapter log of a
\* recording session, and hooks into the same session.
NextIngest ==
    \/ CliAdapterConfigure
    \/ \E j \in JsonTexts : AppendJsonLine(j)
    \/ CliStartRead(1) \/ CliStartMetadata(1) \/ CliStartCreate(1)
    \/ CliStartRegister(1)
    \/ RecorderStartup(1) \/ RecorderLoop(1) \/ RecorderAdapterRead(1)
    \/ RecorderAdapterInsert(1) \/ RecorderAdapterOffset(1) \/ RecorderScan(1)
    \/ CliHookResolve(1) \/ CliHookInsert(1) \/ CliHookHeartbeat(1)

SpecIngest == Init /\ [][NextIngest]_vars

\* Hook ingestion: Claude Code's hooks report into the session an editor
\* started, which may be stopped under them, while time passes.
NextHook ==
    \/ McpStartLookup(1) \/ McpStartCreate(1) \/ McpStartHeartbeat(1)
    \/ McpStopChatSession(1)
    \/ CliHookResolve(1) \/ CliHookInsert(1) \/ CliHookHeartbeat(1)
    \/ Tick

SpecHook == Init /\ [][NextHook]_vars

\* One MCP server and the client at the other end of its pipes.
NextRpc ==
    \/ RpcServe \/ RpcEndOfInput
    \/ \E line \in InputLines : ClientSend(line)
    \/ ClientCloseInput \/ ClientCloseOutput

SpecRpc == Init /\ [][NextRpc]_vars

Next ==
    \/ NextSession \/ NextFile \/ NextInsert \/ NextCompact \/ NextIds
    \/ NextStop \/ NextStartStop \/ NextAdapter \/ NextRpc \/ NextChat
    \/ NextHook \/ NextIngest \/ NextClients \/ NextSummary
    \/ NextPoll \/ NextRetry \/ NextLog

Spec == Init /\ [][Next]_vars

----------------------------------------------------------------------------
(* Session lifecycle. *)

\* C1: at any moment at most one session row of the project is 'running',
\* however `ctx start`, `ctx stop`, recorder exit and the MCP tools
\* start_chat_session and stop_chat_session interleave.
C1_AtMostOneRunning == Cardinality(RunningSessions(db)) <= 1

StateRank(state) ==
    CASE state = "running" -> 1
      [] state = "stopping" -> 2
      [] state = "stopped" -> 3

\* C2: a session's state only advances along running -> stopping -> stopped;
\* no step moves a session back to an earlier state.
C2_StateOnlyAdvances ==
    [][\A s \in SessionIds(db) :
          StateRank(db'.sessions[s].state) >= StateRank(db.sessions[s].state)]_vars

----------------------------------------------------------------------------
(* Deduplication, quota, compaction and event ids. *)

\* The tuple a row is deduplicated on, compared column by column with the
\* arguments of a call.
SameTuple(row, a) ==
    /\ row.session_id = a.session_id
    /\ row.event_type = safe_event_type(a.event_type)
    /\ Lower(row.summary) = Lower(normalize_summary(a.summary, SUMMARY_MAX_CHARS))
    /\ row.files = sanitize_files(a.files_touched)
    /\ row.before_hash = a.before_hash
    /\ row.after_hash = a.after_hash
    /\ row.reverted_event_id = a.reverted_event_id
    /\ row.is_effective = a.is_effective

\* The rows of d an insert of a at time t repeats: same tuple, created no
\* more than DEDUPE_WINDOW_SECONDS before.
Twins(d, a, t) ==
    {e \in EventIds(d) : /\ SameTuple(d.events[e], a)
                          /\ t - d.events[e].created_at <= DEDUPE_WINDOW_SECONDS}

SameButUpdatedAt(r1, r2) == [r1 EXCEPT !.updated_at = 0] = [r2 EXCEPT !.updated_at = 0]

\* C3: an insert_event call that repeats a row of the same session, type,
\* summary (up to case), files, hashes, revert pointer and is_effective flag
\* within the dedupe window inserts no event, tool_usage or decision row and
\* writes no log line; it returns the id of the row it repeats, of which it
\* only refreshes updated_at; the tuple still has exactly one row. This holds
\* whichever server process makes either call.
C3_DedupeIdempotent ==
    [][\A p \in McpProcs :
          (/\ mcp[p].pc = "append_insert"
           /\ mcp'[p].pc # "append_insert"
           /\ ret'.err = "none")
          => LET a == append_event_args(mcp[p].session_id, mcp[p].args, now)
             IN  Twins(db, a, now) # {}
                 => /\ ret'.id \in Twins(db, a, now)
                    /\ Cardinality(Twins(db', a, now)) = 1
                    /\ db'.last_event_id = db.last_event_id
                    /\ EventIds(db') \subseteq EventIds(db)
                    /\ db'.tool_usage = db.tool_usage
                    /\ db'.decisions = db.decisions
                    /\ sidecar' = sidecar
                    /\ \A e \in EventIds(db') :
                          SameButUpdatedAt(db'.events[e], db.events[e])
                    /\ db'.events[ret'.id].updated_at = now]_vars

\* A call deduplicated at the very end of the window: the row it returned
\* was refreshed DEDUPE_WINDOW_SECONDS after it was created, no second row
\* was inserted, and the row has its one tool_usage and decision row.
C3_Witness ==
    /\ ret.err = "none"
    /\ ret.id \in EventIds(db)
    /\ db.events[ret.id].updated_at =
          db.events[ret.id].created_at + DEDUPE_WINDOW_SECONDS
    /\ db.last_event_id = 1
    /\ Len(db.tool_usage) = 1
    /\ Len(db.decisions) = 1

\* C11: at the end of every insert that stores a new event the memory
\* directory holds at most storage_cap_bytes bytes.
C11_WithinCapAfterInsert ==
    [][db'.last_event_id > db.last_event_id
       => db'.project.storage_used_bytes <= project_cap(db')]_vars

C13_IdsStrictlyIncrease ==
    [][LET new == EventIds(db') \ EventIds(db)
       IN  /\ Cardinality(new) <= 1
           /\ \A e \in new :
                 /\ \A o \in EventIds(db) : o < e
                 /\ \A i \in DOMAIN sidecar : sidecar[i].event_id < e
                 /\ ret'.id = e
           /\ (ret' # ret /\ ret'.id \in EventIds(db)) => new = {}]_vars

\* An event was inserted after compaction had deleted the row with the
\* largest id so far: the log names an id that is smaller than the new one and
\* is no longer stored.
C13_Witness ==
    /\ db.rollups # <<>>
    /\ \E e \in EventIds(db), i \in DOMAIN sidecar :
          /\ sidecar[i].event_id \notin EventIds(db)
          /\ sidecar[i].event_id < e
          /\ \A o \in EventIds(db) : o <= e
          /\ db.events[e].created_at = now

\* C14: for every stored event the fingerprint recomputed from the columns
\* of its row (type, lowercased summary, sorted files, before and after hash,
\* revert pointer, is_effective) is the dedupe_hash the row stores.
C14_FingerprintReproducible ==
    \A e \in EventIds(db) :
        LET row == db.events[e]
        IN  row.dedupe_hash =
              sha256(dedupe_basis(row.event_type, row.summary, row.files,
                                  row.before_hash, row.after_hash,
                                  row.reverted_event_id, row.is_effective))

----------------------------------------------------------------------------
(* The file engine. *)

\* The file-transition events of a path that the store still holds.
TransitionEvents(d, path) ==
    {e \in EventIds(d) : /\ d.events[e].after_hash # NoHash
                         /\ d.events[e].files = <<path>>}

\* C4: an event has is_effective = 0 if and only if some event's
\* reverted_event_id is its id: an event becomes ineffective only when it is
\* later reverted.
C4_IneffectiveIffReverted ==
    \A e \in EventIds(db) :
        db.events[e].is_effective = 0
        <=> \E r \in EventIds(db) : db.events[r].reverted_event_id = e

\* C5: for every revert event R with a reverted_event_id P, the event P
\* exists, has is_effective = 0 and has reverted_by_event_id = R; also after
\* later transitions and after compaction.
C5_RevertPointersAgree ==
    \A r \in EventIds(db) :
        (db.events[r].event_type = "revert" /\ db.events[r].reverted_event_id # NoId)
        => LET p == db.events[r].reverted_event_id
           IN  /\ p \in EventIds(db)
               /\ db.events[p].is_effective = 0
               /\ db.events[p].reverted_by_event_id = r

SaysReverted(summary) ==
    summary # <<>> /\ summary[1] = "Last changes were reverted for "

\* C6: once the transitions baseline -> H1 -> baseline of a path are
\* recorded (H1 other than the baseline), the path is clean and its last
\* event is a revert whose summary says so; also for a file first seen after
\* the initial scan, whose baseline is the __deleted__ sentinel.
C6_RevertClosure ==
    \A path \in DOMAIN db.file_state :
        LET fs == db.file_state[path]
            e2 == fs.last_event_id
        IN  \A e1 \in TransitionEvents(db, path) :
              (/\ e2 \in TransitionEvents(db, path)
               /\ e1 < e2
               /\ \A e \in TransitionEvents(db, path) : e <= e1 \/ e = e2
               /\ db.events[e1].before_hash = fs.baseline_hash
               /\ db.events[e1].after_hash # fs.baseline_hash
               /\ db.events[e2].before_hash = db.events[e1].after_hash
               /\ db.events[e2].after_hash = fs.baseline_hash)
              => /\ fs.is_clean = 1
                 /\ db.events[e2].event_type = "revert"
                 /\ SaysReverted(db.events[e2].summary)

\* What the store and its log record as content a path has had: the hashes
\* seen by a scan or a transition, the baseline and the current hash, the
\* before and after hashes of the logged transitions, and the __deleted__
\* sentinel for a path that had no file when the recorder first looked.
ObservedBefore(path, h) ==
    \/ <<path, h>> \in db.file_hash_history
    \/ /\ path \in DOMAIN db.file_state
       /\ h \in {db.file_state[path].baseline_hash, db.file_state[path].current_hash}
    \/ \E i \in DOMAIN sidecar :
          /\ sidecar[i].files_touched = <<path>>
          /\ h \in {sidecar[i].before_hash, sidecar[i].after_hash}
    \/ /\ path \notin DOMAIN db.file_state
       /\ h = DELETED_FILE_HASH

\* C7: a transition of a path to a hash other than its current one emits a
\* revert if and only if that hash was the content of the path at some
\* earlier time (the baseline, a later content, or the __deleted__ sentinel);
\* otherwise it emits a code_change.
C7_RevertIffSeenBefore ==
    [][\A path \in Paths :
          LET new == db'.last_event_id
          IN  (/\ new = db.last_event_id + 1
               /\ new \in TransitionEvents(db', path))
              => /\ db'.events[new].event_type \in {"revert", "code_change"}
                 /\ db'.events[new].event_type = "revert"
                    <=> ObservedBefore(path, db'.events[new].after_hash)]_vars

\* C8: for every path of file_state, is_clean = 1 if and only if
\* current_hash = baseline_hash.
C8_CleanIffAtBaseline ==
    \A path \in DOMAIN db.file_state :
        db.file_state[path].is_clean = 1
        <=> db.file_state[path].current_hash = db.file_state[path].baseline_hash

\* A file seeded at the first scan, then deleted, then created again with its
\* first content: clean again, by an event that follows the deletion.
C8_Witness ==
    \E path \in DOMAIN db.file_state :
        LET fs == db.file_state[path]
        IN  /\ fs.is_clean = 1
            /\ fs.baseline_hash # DELETED_FILE_HASH
            /\ fs.last_event_id \in EventIds(db)
            /\ db.events[fs.last_event_id].before_hash = DELETED_FILE_HASH

\* C9: for every path of file_state, if last_event_id is set then
\* current_hash is the after_hash of the path's most recently inserted
\* transition event, which is the event last_event_id names; if the path has
\* no transition event then current_hash = baseline_hash.
C9_CurrentIsLastAfter ==
    \A path \in DOMAIN db.file_state :
        LET fs == db.file_state[path]
            T == TransitionEvents(db, path)
        IN  /\ fs.last_event_id # NoId
               => /\ T # {}
                  /\ fs.last_event_id = Max(T)
                  /\ fs.current_hash = db.events[Max(T)].after_hash
            /\ T = {} => fs.current_hash = fs.baseline_hash

\* C10: once a path has a file_state row its baseline_hash never changes:
\* not by a transition, not by the seeding of a later first scan, not by
\* any other step.
C10_BaselineFrozen ==
    [][\A path \in DOMAIN db.file_state :
          /\ path \in DOMAIN db'.file_state
          /\ db'.file_state[path].baseline_hash = db.file_state[path].baseline_hash]_vars

\* The recorder of a later session has made its first scan over a file whose
\* content is no longer the baseline, after a transition of that file had
\* been recorded.
C10_Witness ==
    \E s \in DOMAIN recorders, path \in DOMAIN db.file_state :
        /\ s > 1
        /\ recorders[s].scanned
        /\ recorders[s].last_file_snapshot[path] \notin
              {Absent, db.file_state[path].baseline_hash}
        /\ db.file_state[path].last_event_id # NoId

----------------------------------------------------------------------------
(* Registry and store. *)

\* No session start or stop is under way: every command and tool call has
\* returned and no recorder is in its exit sequence.
NoStartOrStopUnderWay ==
    /\ \A p \in CliProcs : cli[p].pc = "idle"
    /\ \A p \in McpProcs : mcp[p].pc = "idle"
    /\ \A s \in DOMAIN recorders :
          recorders[s].pc \notin {"handoff", "mark_stopped", "clear_registry"}

\* C15: whenever no session start or stop is under way, the Registry row and
\* the store's project row hold the same recording_state, and the Registry
\* row says 'recording' with active_session_id = s exactly for the sessions s
\* that are running in the store.
C15_RegistryAgreesWithStore ==
    NoStartOrStopUnderWay
    => /\ registry.recording_state = db.project.recording_state
       /\ \A s \in SessionIds(db) :
             (registry.recording_state = "recording" /\ registry.active_session_id = s)
             <=> s \in RunningSessions(db)

----------------------------------------------------------------------------
(* Stopping. *)

\* The recorder of session s has been asked to stop: its session is stopping
\* or stopped, or a SIGTERM or SIGINT has set its stop flag.
StopAsked(s) ==
    /\ s \in DOMAIN recorders
    /\ recorders[s].pc # "exited"
    /\ \/ recorders[s].stop_requested
       \/ get_session_state(db, s) \in {"stopping", "stopped"}

\* C16: once its session is stopping or stopped, or a signal has set its
\* stop flag, a recorder leaves its poll loop and exits, and the session is
\* then stopped and the Registry's recording state is stopped.
C16_RecorderStops ==
    \A s \in 1..MaxSessions :
        StopAsked(s) ~> (/\ s \in DOMAIN recorders
                         /\ recorders[s].pc = "exited"
                         /\ get_session_state(db, s) = "stopped"
                         /\ registry.recording_state = "stopped")

\* A recorder has exited after writing its handoff event; its session is
\* stopped and the Registry says stopped.
C16_Witness ==
    \E s \in DOMAIN recorders :
        /\ recorders[s].pc = "exited"
        /\ get_session_state(db, s) = "stopped"
        /\ registry.recording_state = "stopped"
        /\ \E e \in EventIds(db) : /\ db.events[e].session_id = s
                                   /\ db.events[e].event_type = "handoff"

\* The recorder of session s has polled the working tree at least once: the
\* scan's heartbeat is in source_status.
HasPolled(s) ==
    /\ <<s, <<"filesystem">>>> \in DOMAIN db.source_status
    /\ db.source_status[<<s, <<"filesystem">>>>].status = "available"

\* The events of session s.
SessionEvents(s) == {e \in EventIds(db) : db.events[e].session_id = s}

\* The recorder of session s has polled and no stop has begun.
PolledBeforeStop(s) ==
    /\ s \in SessionIds(db)
    /\ HasPolled(s)
    /\ get_session_state(db, s) = "running"
    /\ cli[1].pc = "idle"

----------------------------------------------------------------------------
(* Adapter log tailing. *)

\* The events of session s that the adapter's log produced.
AdapterEvents(s) ==
    {e \in SessionEvents(s) : db.events[e].source = AdapterSource(ConfiguredAdapter)}

\* C18: the stored offset of (session, adapter, log path) changes only in the
\* step that ends a poll whose chunk was read and whose parsed lines were all
\* inserted, and it becomes the end-of-file position of that read; the read
\* starts at the stored offset; when an insert raises StorageCapError the
\* offset stays as it was and the adapter's source is degraded with
\* 'storage cap reached; event dropped'.
C18_OffsetAdvancesAfterWholeChunk ==
    [][\A s \in 1..MaxSessions :
        LET old == get_adapter_offset(db, s, ConfiguredAdapter, AdapterLogPath)
            new == get_adapter_offset(db', s, ConfiguredAdapter, AdapterLogPath)
            source == <<s, <<"adapter", ConfiguredAdapter>>>>
        IN  /\ new # old
               => /\ s \in DOMAIN recorders
                  /\ recorders[s].pc = "adapter_offset"
                  /\ recorders[s].lines = <<>>
                  /\ old < new /\ new <= Len(adapter_log)
                  /\ new = recorders[s].new_offset
                  /\ \A i \in DOMAIN parsed_lines(SubSeq(adapter_log, old + 1, new)) :
                        \E e \in AdapterEvents(s) :
                            db.events[e].summary =
                                normalize_summary(
                                    parsed_lines(SubSeq(adapter_log, old + 1, new))[i].summary,
                                    SUMMARY_MAX_CHARS)
            /\ (/\ s \in DOMAIN recorders
                /\ recorders[s].pc = "adapter_read"
                /\ recorders'[s].pc \in {"adapter_insert", "adapter_offset"})
               => /\ recorders'[s].new_offset = Len(adapter_log)
                  /\ recorders'[s].lines =
                        parsed_lines(SubSeq(adapter_log, old + 1, Len(adapter_log)))
            /\ (/\ s \in DOMAIN recorders
                /\ recorders[s].pc = "adapter_insert"
                /\ recorders'[s].pc = "scan")
               => /\ new = old
                  /\ db'.source_status[source] =
                        [status |-> "degraded",
                         detail |-> "storage cap reached; event dropped"]
                  /\ db'.events = db.events]_vars

\* A poll took the offset past its chunk, the log grew, and a later poll was
\* refused for the storage cap: the offset is still where the first poll put
\* it.
C18_Witness ==
    \E s \in SessionIds(db) :
        LET offset == get_adapter_offset(db, s, ConfiguredAdapter, AdapterLogPath)
            source == <<s, <<"adapter", ConfiguredAdapter>>>>
        IN  /\ adapter_log # Absent
            /\ 0 < offset /\ offset < Len(adapter_log)
            /\ AdapterEvents(s) # {}
            /\ source \in DOMAIN db.source_status
            /\ db.source_status[source].detail = "storage cap reached; event dropped"


----------------------------------------------------------------------------
(* The RPC transport. *)

\* The frames a step adds to the server's output.
NewFrames == {i \in DOMAIN rpc'.stdout : i > Len(rpc.stdout)}

\* C19: the server takes its framing from the first line it reads
\* (length-prefixed when that line is a Content-Length header, one JSON
\* object per line otherwise), never changes it afterwards, and writes every
\* response, errors included, in that framing, however the later messages
\* are framed.
C19_FramingCommitted ==
    [][/\ rpc.transport_mode # "auto" => rpc'.transport_mode = rpc.transport_mode
       /\ (rpc.transport_mode = "auto" /\ rpc'.transport_mode # "auto")
          => /\ rpc.stdin # <<>>
             /\ rpc'.transport_mode =
                   IF Head(rpc.stdin) = ContentLengthLine THEN "lsp" ELSE "jsonl"
       /\ \A i \in DOMAIN rpc'.stdout :
             /\ rpc'.transport_mode \in {"lsp", "jsonl"}
             /\ rpc'.stdout[i].framing = rpc'.transport_mode]_vars

\* A server that was first spoken to with a length-prefixed message and then
\* with a bare JSON line it could not serve: both answers are length-prefixed.
C19_Witness ==
    /\ rpc.transport_mode = "lsp"
    /\ rpc.sent = MaxInputLines
    /\ Len(rpc.stdout) = 2
    /\ rpc.stdout[1].kind = "result"
    /\ rpc.stdout[2].kind = "error"
    /\ rpc.stdout[2].framing = "lsp"

----------------------------------------------------------------------------
(* The MCP tools. *)

\* C21: an append_event call that names no session while no session is
\* running is answered with -32010, and one that has a session but a missing
\* or blank summary with -32602; neither reaches insert_event, and neither
\* changes an event row, a heartbeat row or anything else in the store.
C21_AppendRefusedLeavesStore ==
    [][\A p \in McpProcs :
        /\ (ret' # ret /\ ret'.err \in {"-32010", "-32602"})
           => /\ db' = db
              /\ sidecar' = sidecar
              /\ mcp' = mcp
        /\ (ret' # ret /\ ret'.err = "-32010") => RunningSessions(db) = {}
        /\ (mcp[p].pc = "idle" /\ mcp'[p].pc = "append_insert")
           => /\ mcp'[p].session_id \in SessionIds(db)
              /\ \E i \in DOMAIN mcp'[p].args.summary :
                    ~IsSpace(mcp'[p].args.summary[i])
              /\ db' = db]_vars

\* A call with a blank summary was refused while a session was running and
\* held events.
C21_Witness ==
    /\ ret.err = "-32602"
    /\ RunningSessions(db) # {}
    /\ EventIds(db) # {}


\* C22: start_chat_session is idempotent while a session runs: it answers
\* with the running session's id, inserts no session row, sets the session's
\* external reference when the call carries one and refreshes the
\* mcp:<client> heartbeat; a session row is inserted only when no session is
\* running, and then exactly one, running, with the client as its agent.
C22_StartChatIdempotent ==
    [][/\ ret'.err # "-32603"
       /\ Len(db'.sessions) > Len(db.sessions)
          => /\ RunningSessions(db) = {}
             /\ Len(db'.sessions) = Len(db.sessions) + 1
             /\ db'.sessions[Len(db'.sessions)].state = "running"
             /\ db'.sessions[Len(db'.sessions)].agent \in McpClientsAccepted
       /\ \A p \in McpProcs :
             (mcp[p].pc = "idle" /\ mcp'[p].pc = "start_heartbeat")
             => /\ mcp'[p].session_id \in RunningSessions(db)
                /\ db' = db]_vars


(* Hook ingestion. *)

RawPrompts == {<<>>, <<"S">>}

\* The hook inputs that agree with h on every key but raw_prompt.
HookVariants(h) == {[h EXCEPT !.payload.raw_prompt = r] : r \in RawPrompts}

\* The JSON texts whose objects agree with that of j on every key but
\* raw_prompt.
RawTwins(j) ==
    {k \in JsonTexts :
        [json_loads_line(<<k>>) EXCEPT !.raw_prompt = <<>>]
            = [json_loads_line(<<j>>) EXCEPT !.raw_prompt = <<>>]}

\* No row and no sidecar line holds the text of a raw_prompt.
RawPromptFree ==
    /\ \A e \in EventIds(db) :
          /\ \A i \in DOMAIN db.events[e].summary : db.events[e].summary[i] # "S"
          /\ \A i \in DOMAIN db.events[e].files : db.events[e].files[i] # "S"
    /\ \A i \in DOMAIN db.decisions :
          \A k \in DOMAIN db.decisions[i].summary : db.decisions[i].summary[k] # "S"
    /\ \A i \in DOMAIN db.tool_usage :
          "S" \notin {db.tool_usage[i].tool_name, db.tool_usage[i].purpose,
                      db.tool_usage[i].result}
    /\ \A i \in DOMAIN sidecar :
          \A k \in DOMAIN sidecar[i].summary : sidecar[i].summary[k] # "S"

C28_JsonLineEventType ==
    [][\A s \in DOMAIN recorders :
        (/\ recorders[s].pc = "adapter_read"
         /\ recorders'[s].pc \in {"adapter_insert", "adapter_offset"})
        => LET offset == get_adapter_offset(db, s, ConfiguredAdapter, AdapterLogPath)
               Claimed(payload) ==
                 IF payload.event_type # NoText THEN payload.event_type
                 ELSE IF payload.tool_name # NoText THEN "tool_use"
                 ELSE IF payload.decision THEN "decision_made"
                 ELSE "task_status"
           IN  \A i \in DOMAIN adapter_log :
                 (i > offset /\ adapter_log[i] \in JsonTexts)
                 => \E k \in DOMAIN recorders'[s].lines :
                       /\ recorders'[s].lines[k].summary
                             = json_loads_line(<<adapter_log[i]>>).summary
                       /\ recorders'[s].lines[k].event_type
                             = Claimed(json_loads_line(<<adapter_log[i]>>))]_vars


(* The MCP clients. *)

\* C25: ping and append_event accept every supported MCP client: a ping
\* naming cursor, claude or codex is answered without an error, and an event
\* appended by a call naming client c has source mcp:<c>.
C25_SupportedClientsAccepted ==
    [][\A p \in McpProcs :
        /\ (/\ mcp[p].pc = "ping" /\ mcp'[p].pc = "idle"
            /\ mcp[p].args.client \in SUPPORTED_MCP_CLIENTS)
           => ret'.err = "none"
        /\ (/\ mcp[p].pc = "append_insert" /\ mcp'[p].pc # "append_insert"
            /\ mcp[p].args.client \in SUPPORTED_MCP_CLIENTS)
           => \A e \in EventIds(db') \ EventIds(db) :
                 db'.events[e].source = <<"mcp", mcp[p].args.client>>]_vars


(* Summaries. *)

AfterHash(s, path) ==
    IF recorders[s].current[path] = Absent THEN DELETED_FILE_HASH
    ELSE recorders[s].current[path]

\* C27: a record_file_transition whose new hash is the path's current hash,
\* or __deleted__ for a path with no file_state row, inserts no event and
\* leaves the events, the sidecar log, file_state and file_hash_history as
\* they were.
C27_SameHashIsNoOp ==
    [][\A s \in DOMAIN recorders :
        (/\ recorders[s].pc = "transitions"
         /\ recorders'[s] # recorders[s]
         /\ \A path \in recorders[s].changed :
               file_state_row(db, path).current_hash = AfterHash(s, path))
        => /\ db'.events = db.events
           /\ db'.last_event_id = db.last_event_id
           /\ sidecar' = sidecar
           /\ db'.file_state = db.file_state
           /\ db'.file_hash_history = db.file_hash_history]_vars


(* Polling at the storage cap. *)

\* The status rows that say an event was dropped at the storage cap.
CapDropped(d, s) ==
    {source \in {<<"adapter", ConfiguredAdapter>>, <<"git">>, <<"filesystem">>} :
        /\ <<s, source>> \in DOMAIN d.source_status
        /\ d.source_status[<<s, source>>].status = "degraded"
        /\ d.source_status[<<s, source>>].detail \in
              {"storage cap reached; event dropped",
               "storage cap reached; git event dropped",
               "storage cap reached; git revert event dropped",
               "storage cap reached; file event dropped"}}

\* C29: a poll substep whose insert the store refuses for the storage cap
\* marks its source degraded, stores no event and no sidecar line, and hands
\* over to what follows it in the loop: after the adapters the git poll (the
\* scan where the directory is no git work tree), after the git poll the
\* scan, after the scan the next iteration. A substep leaves the poll for
\* nothing else.
C29_RecordAndContinue ==
    [][\A s \in DOMAIN recorders :
        LET pc == recorders[s].pc
            after == recorders'[s].pc
        IN  /\ (pc \in {"adapter_insert", "git_insert", "transitions"}
                /\ recorders'[s] # recorders[s]
                /\ EventIds(db') = EventIds(db)
                /\ db'.source_status # db.source_status)
               => /\ sidecar' = sidecar
                  /\ pc = "adapter_insert" =>
                        /\ <<"adapter", ConfiguredAdapter>> \in CapDropped(db', s)
                        /\ after = IF git_repo THEN "git" ELSE "scan"
                  /\ pc = "git_insert" =>
                        /\ <<"git">> \in CapDropped(db', s)
                        /\ after = "scan"
                  /\ pc = "transitions" =>
                        /\ <<"filesystem">> \in CapDropped(db', s)
                        /\ after = "loop"
            /\ (pc \in {"adapter_read", "adapter_insert", "adapter_offset", "git",
                        "git_insert", "scan", "transitions"}
                /\ after # pc)
               => after \in {"adapter_insert", "adapter_offset", "git", "git_insert",
                             "scan", "transitions", "loop"}]_vars

\* In one session the adapter, the git poll and the scan have each dropped
\* an event at the storage cap, and the recorder is at the top of its loop,
\* still asked to run.
C29_Witness ==
    \E s \in DOMAIN recorders :
        /\ CapDropped(db, s) =
              {<<"adapter", ConfiguredAdapter>>, <<"git">>, <<"filesystem">>}
        /\ recorders[s].pc = "loop"
        /\ ~recorders[s].stop_requested
        /\ get_session_state(db, s) = "running"


(* Retrying on lock contention. *)

\* C30: an operation runs its transaction at most 8 times; it goes on to
\* another run only after a 'locked' error and only while fewer than 8 runs
\* were made; the 8th locked error in a row and any other error are raised
\* to the caller by the run they occur in; and an operation under way comes
\* to its end, however long the contention lasts.
C30_BoundedRetry ==
    /\ [][/\ retry'.runs <= 8
          /\ (retry.pc = "running" /\ retry'.pc = "running" /\ retry' # retry)
             => /\ retry'.error \in {"database is locked", "database table is locked"}
                /\ retry'.runs = retry.runs + 1
                /\ retry'.runs < 8
          /\ (retry.pc = "running" /\ retry'.runs = retry.runs + 1
              /\ retry'.error \in {"database is locked", "database table is locked"}
              /\ retry'.runs = 8)
             => retry'.pc = "raised"
          /\ (retry.pc = "running" /\ retry'.runs = retry.runs + 1
              /\ retry'.error = "disk I/O error")
             => retry'.pc = "raised"
          /\ (retry.pc = "running" /\ retry'.pc = "returned")
             => retry'.error = "none" /\ retry'.runs = retry.runs + 1]_vars
    /\ (retry.pc = "running") ~> (retry.pc # "running")

\* A registry operation met eight locked errors in a row and raised the
\* last one, having slept 50 ms doubled seven times over.
C30_Witness ==
    /\ retry.pc = "raised"
    /\ retry.operation = "Registry.set_recording_state"
    /\ retry.runs = 8
    /\ retry.error = "database is locked"
    /\ retry.slept = 50 * 127

----------------------------------------------------------------------------
(* C31: shutdown at substep granularity. *)

\* The positions at which a poll substep begins: the adapter poll, the git
\* poll and the filesystem poll.
SubstepStarts == {"adapter_read", "git", "scan"}

\* Recorder s begins a poll substep in this step.
StartsSubstep(s) ==
    /\ recorders[s].pc \in SubstepStarts
    /\ recorders'[s] # recorders[s]
    /\ recorders'[s].pc # "exited"

\* C31: once a termination signal has set the stop flag of a recorder, the
\* recorder starts no further poll substep (adapter poll, git poll,
\* filesystem poll), of the current or of a later iteration, before it
\* leaves the loop.
C31_NoSubstepAfterStopFlag ==
    [][\A s \in DOMAIN recorders :
          recorders[s].stop_requested => ~StartsSubstep(s)]_vars

----------------------------------------------------------------------------
(* C32: one response per request, none per notification. *)

\* The server reads a message in this step: what it read, and the id the
\* message carries.
ReadsMessage ==
    /\ rpc.pc = "serving"
    /\ Len(rpc'.stdin) < Len(rpc.stdin)
    /\ _read_message(rpc.stdin, rpc.stdin_open).kind = "message"

IdRead ==
    LET read == _read_message(rpc.stdin, rpc.stdin_open)
    IN  message_id(read.request, rpc.sent - Len(read.rest))

\* C32: the server is strictly sequential: a request that carries an id
\* receives exactly one response, carrying that id, written in the pass that
\* read it and so before the next message is read; a message without an id,
\* notifications/initialized among them, receives no response; and nothing
\* is written by a step that reads nothing. (A response that cannot be
\* written because the client has closed the pipe is left aside.)
C32_OneResponsePerRequest ==
    [][/\ NewFrames # {} => Len(rpc'.stdin) < Len(rpc.stdin)
       /\ (ReadsMessage /\ rpc.stdout_open)
          => IF IdRead = NoId
             THEN NewFrames = {}
             ELSE /\ Cardinality(NewFrames) = 1
                  /\ \A i \in NewFrames : rpc'.stdout[i].id = IdRead]_vars

----------------------------------------------------------------------------
(* C39: the id of an error response. *)

\* C39: every JSON-RPC error response carries the id of the request that
\* caused it, and a null id when the message that caused it could not be
\* parsed; it never carries the id of an earlier request of the connection.
C39_ErrorCarriesOwnId ==
    [][\A i \in NewFrames :
          rpc'.stdout[i].kind = "error"
          => rpc'.stdout[i].id =
                IF _read_message(rpc.stdin, rpc.stdin_open).kind = "message"
                THEN IdRead ELSE NoId]_vars

----------------------------------------------------------------------------
(* C33: the event log is append-only. *)

\* An event row without the three columns that may change after the insert.
FrozenColumns(row) ==
    [row EXCEPT !.updated_at = 0, !.is_effective = 0, !.reverted_by_event_id = NoId]

\* The event rows a step removes.
DeletedEvents == EventIds(db) \ EventIds(db')

----------------------------------------------------------------------------
(* C34: a recorder that exits late. *)

\* C34: a recorder that exits changes the recording state of the Registry
\* row and of the Store's project row only if they still refer to its own
\* session: when the Registry names another session, the exiting recorder's
\* set_recording_state leaves the Registry row as it is, and while another
\* session is running its set_session_state leaves the project row's
\* recording state as it is.
C34_LateExitLeavesRegistry ==
    [][\A s \in DOMAIN recorders :
          /\ ( /\ recorders[s].pc = "clear_registry"
               /\ recorders'[s].pc = "exited"
               /\ registry.recording_state = "recording"
               /\ registry.active_session_id # s )
             => registry' = registry
          /\ ( /\ recorders[s].pc = "mark_stopped"
               /\ recorders'[s].pc = "clear_registry"
               /\ RunningSessions(db) \ {s} # {} )
             => db'.project = db.project]_vars

----------------------------------------------------------------------------
(* C35: events and the state of their session. *)

\* C35: no event row is created for a session that does not exist or is
\* stopped: whoever inserts (an MCP append_event, a hook, a poll of the
\* recorder or its handoff), the session of a new row is running or stopping
\* when the row is inserted.
C35_InsertOnlyIntoLiveSession ==
    [][\A e \in EventIds(db') \ EventIds(db) :
          /\ db'.events[e].session_id \in SessionIds(db)
          /\ get_session_state(db, db'.events[e].session_id)
                \in {"running", "stopping"}]_vars

----------------------------------------------------------------------------
(* C36: references to events. *)

\* C36: every reference to an event that is not null refers to an event row
\* that exists: tool_usage.event_id, decisions.event_id,
\* file_state.last_event_id, events.reverted_event_id and
\* events.reverted_by_event_id, compaction or not.
C36_EventReferencesValid ==
    /\ \A i \in DOMAIN db.tool_usage : db.tool_usage[i].event_id \in EventIds(db)
    /\ \A i \in DOMAIN db.decisions : db.decisions[i].event_id \in EventIds(db)
    /\ \A path \in DOMAIN db.file_state :
          db.file_state[path].last_event_id # NoId
          => db.file_state[path].last_event_id \in EventIds(db)
    /\ \A e \in EventIds(db) :
          /\ db.events[e].reverted_event_id # NoId
             => db.events[e].reverted_event_id \in EventIds(db)
          /\ db.events[e].reverted_by_event_id # NoId
             => db.events[e].reverted_by_event_id \in EventIds(db)

----------------------------------------------------------------------------
(* C37: re-reading an abandoned chunk. *)

\* The parsed lines of the chunk recorder s is working through, which it
\* read from the start of the log, when no two of them have the same text:
\* each summary then names one line of the log.
ChunkFromStart(s) ==
    parsed_lines(SubSeq(adapter_log, 1, recorders[s].new_offset))

DistinctFromStart(s) ==
    /\ get_adapter_offset(db, s, ConfiguredAdapter, AdapterLogPath) = 0
    /\ \A i, j \in DOMAIN ChunkFromStart(s) :
          ChunkFromStart(s)[i].summary = ChunkFromStart(s)[j].summary => i = j

\* C37: within one session each line of the adapter log yields at most one
\* event row, whatever the polls: when a chunk was abandoned on
\* StorageCapError and is read again, a line of it that already has its row
\* is not given a second one, however long the storage cap condition lasted.
C37_LineInsertedOnce ==
    [][\A s \in DOMAIN recorders :
          ( /\ recorders[s].pc = "adapter_insert"
            /\ recorders'[s] # recorders[s]
            /\ db'.last_event_id > db.last_event_id
            /\ DistinctFromStart(s) )
          => ~\E e \in AdapterEvents(s) :
                db.events[e].summary = db'.events[db'.last_event_id].summary]_vars

----------------------------------------------------------------------------
(* C38: file_state after a filesystem poll. *)

\* Recorder s completes a filesystem poll in this step.
CompletesScan(s) ==
    /\ recorders[s].pc \in {"scan", "transitions"}
    /\ recorders'[s].pc = next_substep("filesystem", git_repo)

\* C38: after every completed filesystem poll of a recorder, every path of
\* the recorder's snapshot has that snapshot's hash as its
\* file_state.current_hash, and every path the snapshot no longer has is at
\* __deleted__ if it has a row: no change seen between two scans is lost
\* without an event, in a second or later session and after a poll that hit
\* the storage cap as well.
C38_FileStateFollowsSnapshot ==
    [][\A s \in DOMAIN recorders :
          CompletesScan(s)
          => \A path \in Paths :
                LET seen == recorders'[s].last_file_snapshot[path]
                IN  IF seen # Absent
                    THEN /\ path \in DOMAIN db'.file_state
                         /\ db'.file_state[path].current_hash = seen
                    ELSE path \in DOMAIN db'.file_state
                         => db'.file_state[path].current_hash = DELETED_FILE_HASH]_vars

----------------------------------------------------------------------------
(* C40: a failed insert. *)

\* An insert_event call of an MCP server, or a record_file_transition call
\* of a recorder, raises in this step.
InsertRaises ==
    \/ \E p \in McpProcs :
          /\ mcp[p].pc = "append_insert"
          /\ mcp'[p].pc = "idle"
          /\ ret'.err \in {"StorageCapError", "ValueError"}
    \/ \E s \in DOMAIN recorders :
          /\ recorders[s].pc = "transitions"
          /\ recorders'[s] # recorders[s]
          /\ db.source_status[<<s, <<"filesystem">>>>].status # "degraded"
          /\ db'.source_status[<<s, <<"filesystem">>>>].status = "degraded"

\* C40: a failed insert is atomic: an insert_event or record_file_transition
\* call that raises StorageCapError, or ValueError for an empty summary,
\* leaves events, rollups, tool_usage, decisions, file_state,
\* file_hash_history and the sidecar log exactly as they were before the
\* call.
C40_FailedInsertAtomic ==
    [][InsertRaises
       => /\ db'.events = db.events
          /\ db'.rollups = db.rollups
          /\ db'.tool_usage = db.tool_usage
          /\ db'.decisions = db.decisions
          /\ db'.file_state = db.file_state
          /\ db'.file_hash_history = db.file_hash_history
          /\ sidecar' = sidecar]_vars

====
